---- MODULE Spec2Model ----
(***************************************************************************)
(* Lyric resolution engine: LyricProvider.search with its result cache,    *)
(* the repository branch (cache scan, existence checks, content fetches),  *)
(* the external branch and the global deadline of the standard path.       *)
(*                                                                         *)
(* The two sources are modelled by what they hold (repoHas, repoEmpty, extHas, cacheCall, http, gate, fetcherCall, pool, meta) and by *)
(* a fault that any single network call may suffer.  Strings that the code *)
(* only compares are kept as strings; an absent (undefined) or empty       *)
(* option is the empty string "" resp. the empty token list <<>>, which    *)
(* the code treats alike (both are falsy).                                 *)
(***************************************************************************)
EXTENDS Integers, Sequences, FiniteSets, TLC

(* ----------------------------- bounds ---------------------------------- *)
\* number of searches issued in one behaviour
MaxSearches == 2
\* capacity of lyricsCache, scaled down from 1000 entries
MaxSize == 3
\* TTL of lyricsCache in ticks of the cache clock, scaled down from 60 min
TtlTicks == 1
\* horizon of the cache clock
MaxNow == 2
\* granularity, in ms, of the per-search stopwatch
TickMs == 6000
\* horizon, in ms, of the per-search stopwatch
MaxElapsedMs == 12000
\* margin, in ms, granted after the global deadline for cancellation
GraceMs == 1000

\* longest fallback string, in comma-separated entries
MaxTokens == 3
\* largest value of options.retries
MaxRetries == 2
\* largest number of network calls the searches of the process have
\* issued and not yet seen return
MaxOutstanding == 17

(* ------------------------ program constants ---------------------------- *)
TOTAL_TIMEOUT_MS == 6000

MAX_CONCURRENT_REQUESTS == 15

ID == "id1"

ALLOWED_FORMATS == <<"ttml", "yrc", "lrc", "eslrc", "tlyric", "romalrc">>

DEFAULT_FALLBACK_ORDER == <<"yrc", "lrc", "eslrc">>

(* ------------------------------ inputs --------------------------------- *)
\* options a client sends: fixedVersion ("" = absent) and fallback, as the
\* list that split(',') yields (<<>> = absent)
Requests ==
  { [fixedVersion |-> "", fallback |-> <<"lrc", "yrc">>],
    [fixedVersion |-> "bogus", fallback |-> <<"yrc">>],
    [fixedVersion |-> "yrc", fallback |-> <<>>],
    [fixedVersion |-> "TTML", fallback |-> <<>>] }
\* what the repository may hold for ID
RepoStates == {{}, {"ttml", "yrc"}, {"yrc", "lrc"}}
\* the payload fields of the external API that may carry a usable lyric
ExtStates == {{}, {"yrc", "lrc"}}
\* upstream HTTP status of a faulty repository answer (0 = no status:
\* network fault)
RepoFaults == {503, 0}
\* the same for the calls of findAllInRepo, which never reads the status
ProbeFaults == {503}
\* faulty answers of the external API (an HTTP status that is not ok;
\* 0 = network fault)
ExtFaults == {500, 0}

(* ------------------------- sequence helpers ---------------------------- *)
Contains(s, x) == \E i \in 1..Len(s) : s[i] = x

RECURSIVE Dedup(_)
\* [...new Set(s)]: first occurrences, in order
Dedup(s) ==
  IF s = <<>> THEN <<>>
  ELSE LET r == Dedup(SubSeq(s, 1, Len(s) - 1))
           x == s[Len(s)]
       IN IF Contains(r, x) THEN r ELSE Append(r, x)

\* variant of ToLowerCase that leaves its argument as written
ToLowerCase_Identity(s) == s

(* ------------------------- format registry ----------------------------- *)
\* String.prototype.toLowerCase / trim on the strings the inputs contain
ToLowerCase(s) ==
  CASE s = "TTML" -> "ttml"
    [] s = "YRC" -> "yrc"
    [] s = "LRC" -> "lrc"
    [] OTHER -> s

Trim(s) ==
  CASE s = " lrc" -> "lrc"
    [] s = "yrc " -> "yrc"
    [] OTHER -> s

isValidFormat(format) ==
  IF format = "" THEN FALSE ELSE Contains(ALLOWED_FORMATS, format)

\* variant of NormalizeTokens that trims but does not lower-case
RECURSIVE NormalizeTokens_TrimOnly(_)
NormalizeTokens_TrimOnly(s) ==
  IF s = <<>> THEN <<>>
  ELSE <<Trim(Head(s))>> \o NormalizeTokens_TrimOnly(Tail(s))

\* the candidate list findAllInRepo builds
RECURSIVE NormalizeTokens(_)
NormalizeTokens(s) ==
  IF s = <<>> THEN <<>>
  ELSE <<ToLowerCase(Trim(Head(s)))>> \o NormalizeTokens(Tail(s))

RECURSIVE KeepValidNonTtml(_)
KeepValidNonTtml(s) ==
  IF s = <<>> THEN <<>>
  ELSE IF isValidFormat(Head(s)) /\ Head(s) # "ttml"
       THEN <<Head(s)>> \o KeepValidNonTtml(Tail(s))
       ELSE KeepValidNonTtml(Tail(s))

formatsToCheck(fallbackQuery) ==
  IF fallbackQuery # <<>>
  THEN Dedup(<<"ttml">> \o KeepValidNonTtml(NormalizeTokens(fallbackQuery)))
  ELSE Dedup(<<"ttml">> \o KeepValidNonTtml(DEFAULT_FALLBACK_ORDER))

(* ------------------------------ cache ---------------------------------- *)
\* lyricsCache is a Map: a sequence of entries in insertion order
NoValue == [null |-> TRUE]

IndexOfKey(c, key) ==
  IF \E i \in 1..Len(c) : c[i].key = key
  THEN CHOOSE i \in 1..Len(c) : c[i].key = key
  ELSE 0

RemoveAt(c, i) == SubSeq(c, 1, i - 1) \o SubSeq(c, i + 1, Len(c))

\* variant of Expired that drops an entry as soon as its age reaches the ttl
Expired_AtTtl(entry, t) == t - entry.timestamp >= TtlTicks

\* Cache.get: the entry has outlived the ttl
Expired(entry, t) == t - entry.timestamp > TtlTicks

\* Cache.get: the value (NoValue for null) and the cache it leaves
CacheGetValue(c, key, t) ==
  LET i == IndexOfKey(c, key)
  IN IF i = 0 THEN NoValue
     ELSE IF Expired(c[i], t) THEN NoValue
     ELSE c[i].data

\* variant of CacheAfterGet that leaves an expired entry in place
CacheAfterGet_KeepExpired(c, key, t) == c

CacheAfterGet(c, key, t) ==
  LET i == IndexOfKey(c, key)
  IN IF i = 0 THEN c
     ELSE IF Expired(c[i], t) THEN RemoveAt(c, i)
     ELSE c

\* variant of findOldestEntry that picks the entry set last
findOldestEntry_Newest(c) ==
  IF Len(c) = 0 THEN 0
  ELSE CHOOSE i \in 1..Len(c) :
         /\ \A j \in 1..Len(c) : c[i].timestamp >= c[j].timestamp
         /\ \A j \in (i + 1)..Len(c) : c[j].timestamp < c[i].timestamp

\* Cache.findOldestEntry: first entry, in iteration order, with the
\* smallest timestamp (0 for null)
findOldestEntry(c) ==
  IF Len(c) = 0 THEN 0
  ELSE CHOOSE i \in 1..Len(c) :
         /\ \A j \in 1..Len(c) : c[i].timestamp <= c[j].timestamp
         /\ \A j \in 1..(i - 1) : c[j].timestamp > c[i].timestamp

\* variant of CacheSet that never evicts
CacheSet_NoEviction(c, key, data, t) ==
  LET i == IndexOfKey(c, key)
      e == [key |-> key, data |-> data, timestamp |-> t]
  IN IF i = 0 THEN Append(c, e) ELSE [c EXCEPT ![i] = e]

\* Cache.set; every key the program builds is a non-empty string, so the
\* oldest key is truthy whenever findOldestEntry finds one
CacheSet(c, key, data, t) ==
  LET c1 == IF Len(c) >= MaxSize /\ findOldestEntry(c) # 0
            THEN RemoveAt(c, findOldestEntry(c))
            ELSE c
      i == IndexOfKey(c1, key)
      e == [key |-> key, data |-> data, timestamp |-> t]
  IN IF i = 0 THEN Append(c1, e) ELSE [c1 EXCEPT ![i] = e]

\* Cache.set: oldestKey, the key it evicts ("" when it evicts none)
EvictedKey(c) ==
  IF Len(c) >= MaxSize /\ findOldestEntry(c) # 0
  THEN c[findOldestEntry(c)].key
  ELSE ""

\* variant of CacheCleanup that also sweeps the entries whose age equals the
\* ttl
CacheCleanup_AtTtl(c, t) ==
  SelectSeq(c, LAMBDA entry : t - entry.timestamp < TtlTicks)

\* Cache.cleanup: the entries it keeps
CacheCleanup(c, t) == SelectSeq(c, LAMBDA entry : ~Expired(entry, t))

\* Cache.invalidate
CacheInvalidate(c, key) ==
  IF IndexOfKey(c, key) = 0 THEN c ELSE RemoveAt(c, IndexOfKey(c, key))

\* cache keys: kind, id and the two variable parts of the key string
SearchKey(id, fixedVersionQuery, fallbackQuery) ==
  <<"search", id,
    IF fixedVersionQuery = "" THEN "none" ELSE fixedVersionQuery,
    IF fallbackQuery = <<>> THEN <<"none">> ELSE fallbackQuery>>

FixedKey(id, format) == <<"fixed", id, format, <<>>>>

RepoKey(id, format) == <<"repo", id, format, <<>>>>

ExternalKey(id) == <<"external", id, "any", <<>>>>

(* --------------------------- source adapters --------------------------- *)
\* what the repository answers to a request for ID.format: the truthful
\* status, or a fault
RepoResponses(has, format, faultSet) ==
  {IF format \in has THEN 200 ELSE 404} \cup faultSet

\* what response.text() yields when reading the body fails
ReadFailure == <<"read failure">>

\* variant of RepositoryFetcher_fetch that takes only status 200 for success
RepositoryFetcher_fetch_Only200(format, response, body) ==
  IF response = 0 \/ (response = 200 /\ body = ReadFailure)
  THEN [status |-> "error", format |-> format, statusCode |-> 0]
  ELSE IF response = 200
  THEN [status |-> "found", format |-> format, source |-> "repository",
        content |-> body]
  ELSE IF response = 404
  THEN [status |-> "notfound", format |-> format]
  ELSE [status |-> "error", format |-> format, statusCode |-> response]

\* RepositoryFetcher.fetch, given the HTTP status of the response
\* (0: fetch threw) and its body; statusCode 0 stands for an absent
\* statusCode
RepositoryFetcher_fetch(format, response, body) ==
  IF response = 0
  THEN [status |-> "error", format |-> format, statusCode |-> 0]
  ELSE IF response >= 200 /\ response <= 299 /\ body = ReadFailure
  THEN [status |-> "error", format |-> format, statusCode |-> 0]
  ELSE IF response >= 200 /\ response <= 299
  THEN [status |-> "found", format |-> format, source |-> "repository",
        content |-> body]
  ELSE IF response = 404
  THEN [status |-> "notfound", format |-> format]
  ELSE [status |-> "error", format |-> format, statusCode |-> response]

\* lines of the lyric the payload carries under key: a field of payload
\* has a timestamped line, any other field has none
ExternalLyric(payload, key) ==
  IF key \in payload THEN <<"plain", "stamped">> ELSE <<"plain">>

\* variant of filterLyricLines that keeps every line
filterLyricLines_KeepAll(rawLyrics) == rawLyrics

\* filterLyricLines: the timestamped lines
filterLyricLines(rawLyrics) ==
  SelectSeq(rawLyrics, LAMBDA line : line = "stamped")

\* what the external API answers: its payload (200), or a fault
ExtResponses == {200} \cup ExtFaults

\* variant of ExternalApiFetcher_fetch that tries lrc before yrc
ExternalApiFetcher_fetch_LrcFirst(payload, specificFormat, response) ==
  IF response = 0
  THEN [status |-> "error", format |-> "", statusCode |-> 502]
  ELSE IF ~(response >= 200 /\ response <= 299)
  THEN [status |-> "error", format |-> "", statusCode |-> 502]
  ELSE LET formatsToTry == IF specificFormat # "" THEN <<specificFormat>>
                           ELSE <<"lrc", "yrc">>
           filteredContent(i) ==
             filterLyricLines(ExternalLyric(payload, formatsToTry[i]))
           hits == {i \in 1..Len(formatsToTry) : filteredContent(i) # <<>>}
           first == CHOOSE i \in hits : \A j \in hits : i <= j
       IN IF hits # {}
          THEN [status |-> "found", format |-> formatsToTry[first],
                source |-> "external", content |-> filteredContent(first),
                translation |-> filterLyricLines(ExternalLyric(payload, "tlyric")),
                romaji |-> filterLyricLines(ExternalLyric(payload, "romalrc"))]
          ELSE [status |-> "notfound", format |-> specificFormat]

\* ExternalApiFetcher.fetch, given the response and the set of payload
\* fields (yrc, lrc) that hold a usable lyric; specificFormat "" = no hint
ExternalApiFetcher_fetch(payload, specificFormat, response) ==
  IF response = 0
  THEN [status |-> "error", format |-> "", statusCode |-> 502]
  ELSE IF ~(response >= 200 /\ response <= 299)
  THEN [status |-> "error", format |-> "", statusCode |-> 502]
  ELSE LET formatsToTry == IF specificFormat # "" THEN <<specificFormat>>
                           ELSE <<"yrc", "lrc">>
           filteredContent(i) ==
             filterLyricLines(ExternalLyric(payload, formatsToTry[i]))
           hits == {i \in 1..Len(formatsToTry) : filteredContent(i) # <<>>}
           first == CHOOSE i \in hits : \A j \in hits : i <= j
       IN IF hits # {}
          THEN [status |-> "found", format |-> formatsToTry[first],
                source |-> "external", content |-> filteredContent(first),
                translation |-> filterLyricLines(ExternalLyric(payload, "tlyric")),
                romaji |-> filterLyricLines(ExternalLyric(payload, "romalrc"))]
          ELSE [status |-> "notfound", format |-> specificFormat]

(* ------------------------------ results -------------------------------- *)
Found(id, fetchResult, source) ==
  [found |-> TRUE, id |-> id, format |-> fetchResult.format, source |-> source,
   content |-> fetchResult.content]

NotFound(id, error, statusCode) ==
  [found |-> FALSE, id |-> id, error |-> error, statusCode |-> statusCode]

\* value of a findAllInRepo promise that found nothing
Null == [null |-> TRUE]

Fulfilled(value) == [status |-> "fulfilled", value |-> value]

\* controller.signal.reason of the global deadline
AbortReason == "Search timed out after 6000ms"

\* rejection by raceWithGlobalTimeout
Rejected == [status |-> "rejected", reason |-> AbortReason]

Pending == [status |-> "pending"]

NoProbe == [status |-> "none"]

(* ------------------------------- state --------------------------------- *)
VARIABLES
  repoHas,     \* formats the repository holds for ID
  repoEmpty,   \* formats whose file in the repository is empty
  cacheCall,   \* the last direct call of a Cache method and what it returned
  http,        \* a call of fetchContent or checkResourceExists
  fetcherCall, \* the last direct call of a fetcher and what it returned
  pool,        \* the WorkerPool
  meta,        \* a call of getLyricMetadata
  gate,        \* network calls of the process: holding a permit of
               \* requestLimit, queued for one, and made without one
  extHas,      \* payload fields of the external API with a usable lyric
  cache,       \* lyricsCache
  now,         \* Date.now(), in ticks of the cache clock
  pc,          \* "idle", "standard", "fixed" (search in flight) or "done"
  req,         \* options of the current search
  startedAt,   \* value of now when the current search started
  elapsed,     \* ms since the current search started
  result,      \* value the current search returned
  fromCache,   \* the current search was answered by the top-level entry
  called,      \* adapters the current search has invoked
  faulty,      \* a call of the current search was answered by a fault
               \* before the search returned
  repoPhase,   \* progress of findAllInRepo
  repoBranch,  \* promise of findAllInRepo
  toFetch,     \* formatToFetch of findAllInRepo
  fetches,     \* results of the parallel fetches of findAllInRepo
  firstFound,  \* format of the parallel fetch that returned found first
  extBranch,   \* promise of findInExternalApi
  fx,          \* the two fetches of handleFixedVersionSearch
  settled,     \* repoResultSettled and externalApiResultSettled of search
  foundBy,     \* sources whose fetch returned found before search returned
  nSearches,   \* number of searches started
  prev         \* the search before the current one, kept while the next
               \* search can repeat it (same options)

vars == <<repoHas, repoEmpty, extHas, cacheCall, http, gate, fetcherCall, pool, meta, cache, now, pc, req, startedAt, elapsed, result,
          fromCache, called, faulty, repoPhase, repoBranch, toFetch, fetches,
          firstFound, extBranch, fx, settled, foundBy, nSearches, prev>>

NoRequest == [fixedVersion |-> "", fallback |-> <<>>]

NoResult == [found |-> FALSE, id |-> "", error |-> <<>>, statusCode |-> 0]

NoPrev == [valid |-> FALSE]

NoSettled == [repo |-> NoProbe, ext |-> NoProbe]

\* body of the answer to a successful request for ID.format: the lines of
\* the file
RepoBody(format) == IF format \in repoEmpty THEN <<>> ELSE <<"stamped">>

\* no search has been made
NoCall == [op |-> "none"]

NoHttpCall == [phase |-> "idle"]

NoNetworkCalls == [active |-> 0, queued |-> 0, direct |-> 0]

NoFetcherCall == [fetcher |-> "none"]

\* the module before workerPool is constructed; the fields are those of
\* WorkerPool, with workers named by the order of their creation, and the
\* bookkeeping of the promises runTask returned
NoPool ==
  [created |-> FALSE, workers |-> <<>>, busyWorkers |-> {},
   taskQueue |-> <<>>, idleTimers |-> {}, listening |-> {},
   terminated |-> {}, nextWorker |-> 1, submitted |-> 0,
   dispatched |-> <<>>, resolved |-> {}, rejected |-> {},
   event |-> [kind |-> "none", worker |-> 0, wasBusy |-> FALSE]]

NoMetadataCall == [phase |-> "idle"]

InitSearch ==
  /\ fetcherCall = NoFetcherCall
  /\ pool = NoPool
  /\ meta = NoMetadataCall
  /\ gate = NoNetworkCalls
  /\ cacheCall = NoCall
  /\ http = NoHttpCall
  /\ cache = <<>>
  /\ now = 0
  /\ pc = "idle"
  /\ req = NoRequest
  /\ startedAt = 0
  /\ elapsed = 0
  /\ result = NoResult
  /\ fromCache = FALSE
  /\ called = {}
  /\ faulty = FALSE
  /\ repoPhase = "none"
  /\ repoBranch = NoProbe
  /\ toFetch = ""
  /\ fetches = <<>>
  /\ firstFound = ""
  /\ extBranch = NoProbe
  /\ fx = [repo |-> NoProbe, ext |-> NoProbe]
  /\ settled = NoSettled
  /\ foundBy = {}
  /\ nSearches = 0
  /\ prev = NoPrev

Init ==
  /\ repoHas \in RepoStates
  /\ repoEmpty = {}
  /\ extHas \in ExtStates
  /\ InitSearch

(* --------------------- search: selection of the result ----------------- *)
IsTimeout(reason) == reason = AbortReason

\* statusCode of a settled value (0: none)
StatusCodeOf(value) ==
  IF value = Null THEN 0 ELSE IF value.found THEN 0 ELSE value.statusCode

\* error text of a settled value that is not a found result
ErrorOf(value) ==
  IF value = Null THEN "Not found or null result" ELSE value.error[1].text

\* finalStatusCode after the repository part of step 4
StatusAfterRepo(repoS) ==
  IF repoS.status = "fulfilled"
  THEN IF StatusCodeOf(repoS.value) # 0 /\ StatusCodeOf(repoS.value) # 200
          /\ StatusCodeOf(repoS.value) # 404
       THEN StatusCodeOf(repoS.value)
       ELSE 404
  ELSE IF IsTimeout(repoS.reason) THEN 408 ELSE 500

\* finalStatusCode after the external part of step 4
StatusAfterExternal(final, extS) ==
  IF extS.status = "fulfilled"
  THEN IF StatusCodeOf(extS.value) # 0 /\ StatusCodeOf(extS.value) # 200
          /\ (final = 404 \/ final = 408 \/ StatusCodeOf(extS.value) >= 500)
       THEN StatusCodeOf(extS.value)
       ELSE final
  ELSE IF IsTimeout(extS.reason)
       THEN IF final = 404 THEN 408 ELSE final
       ELSE IF final = 404 \/ final = 408 THEN 500 ELSE final

\* variant of ErrorsEncountered that records fulfilled branches only
ErrorsEncountered_FulfilledOnly(repoS, extS) ==
  (IF repoS.status = "fulfilled"
   THEN <<[branch |-> "Repo", text |-> ErrorOf(repoS.value)]>> ELSE <<>>)
  \o (IF extS.status = "fulfilled"
      THEN <<[branch |-> "External API", text |-> ErrorOf(extS.value)]>>
      ELSE <<>>)

\* errorsEncountered of step 4
ErrorsEncountered(repoS, extS) ==
  << IF repoS.status = "fulfilled"
     THEN [branch |-> "Repo", text |-> ErrorOf(repoS.value)]
     ELSE [branch |-> "Repo Error", text |-> repoS.reason],
     IF extS.status = "fulfilled"
     THEN [branch |-> "External API", text |-> ErrorOf(extS.value)]
     ELSE [branch |-> "External API Error", text |-> extS.reason] >>

IsFoundValue(promise) ==
  /\ promise.status = "fulfilled"
  /\ promise.value # Null
  /\ promise.value.found

\* variant of SelectResult that looks at the external branch first
SelectResult_ExternalFirst(id, repoS, extS) ==
  IF IsFoundValue(extS) THEN extS.value
  ELSE IF IsFoundValue(repoS) THEN repoS.value
  ELSE NotFound(id, ErrorsEncountered(repoS, extS),
                StatusAfterExternal(StatusAfterRepo(repoS), extS))

\* variant of SelectResult that gives up when findAllInRepo was rejected
SelectResult_RepoMustSettle(id, repoS, extS) ==
  IF IsFoundValue(repoS) THEN repoS.value
  ELSE IF repoS.status = "rejected"
  THEN NotFound(id, <<[branch |-> "Repo Error", text |-> repoS.reason]>>,
                StatusAfterRepo(repoS))
  ELSE IF IsFoundValue(extS) THEN extS.value
  ELSE NotFound(id, ErrorsEncountered(repoS, extS),
                StatusAfterExternal(StatusAfterRepo(repoS), extS))

\* the evaluation in search, from the two settled promises to the result
SelectResult(id, repoS, extS) ==
  IF IsFoundValue(repoS) /\ repoS.value.format = "ttml" THEN repoS.value
  ELSE IF IsFoundValue(repoS) THEN repoS.value
  ELSE IF IsFoundValue(extS) THEN extS.value
  ELSE NotFound(id, ErrorsEncountered(repoS, extS),
                StatusAfterExternal(StatusAfterRepo(repoS), extS))

\* variant of RaceWithGlobalTimeout in which the deadline rejects every
\* branch, completed or not
RaceWithGlobalTimeout_RejectAll(branch) == Rejected

\* what raceWithGlobalTimeout makes of a branch when the deadline fires
RaceWithGlobalTimeout(branch) ==
  IF branch.status = "fulfilled" THEN branch ELSE Rejected

(* ----------------------- search: the branches -------------------------- *)
\* the cache scan of findAllInRepo from position i of the candidate list:
\* the first cached format and the cache the reads leave
RECURSIVE ScanRepoCache(_, _, _, _, _)
ScanRepoCache(c, id, formats, i, t) ==
  IF i > Len(formats) THEN [cache |-> c, hit |-> NoValue]
  ELSE LET cachedResult == CacheGetValue(c, RepoKey(id, formats[i]), t)
           c1 == CacheAfterGet(c, RepoKey(id, formats[i]), t)
       IN IF cachedResult # NoValue /\ cachedResult.status = "found"
          THEN [cache |-> c1, hit |-> cachedResult]
          ELSE ScanRepoCache(c1, id, formats, i + 1, t)

\* availableFormats: the candidates the existence checks report, in
\* candidate order
RECURSIVE AvailableFormats(_, _)
AvailableFormats(formats, exists) ==
  IF formats = <<>> THEN <<>>
  ELSE IF Head(formats) \in exists
       THEN <<Head(formats)>> \o AvailableFormats(Tail(formats), exists)
       ELSE AvailableFormats(Tail(formats), exists)

\* formatToFetch
FormatToFetch(availableFormats) ==
  IF Contains(availableFormats, "ttml") THEN "ttml" ELSE availableFormats[1]

\* variant of FirstFoundIndex that walks the candidate list from its end
FirstFoundIndex_FromEnd(formats, results) ==
  LET hits == {i \in 1..Len(formats) : results[formats[i]].status = "found"}
  IN IF hits = {} THEN 0 ELSE CHOOSE i \in hits : \A j \in hits : i >= j

\* variant of FirstFoundIndex that gives up at the first fetch of status
\* error
FirstFoundIndex_StopAtError(formats, results) ==
  LET hits == {i \in 1..Len(formats) : results[formats[i]].status = "found"}
      errs == {i \in 1..Len(formats) : results[formats[i]].status = "error"}
      ok == {i \in hits : \A e \in errs : i < e}
  IN IF ok = {} THEN 0 ELSE CHOOSE i \in ok : \A j \in ok : i <= j

\* the final loop of findAllInRepo: position of the first candidate whose
\* fetch returned found (0: none)
FirstFoundIndex(formats, results) ==
  LET hits == {i \in 1..Len(formats) : results[formats[i]].status = "found"}
  IN IF hits = {} THEN 0 ELSE CHOOSE i \in hits : \A j \in hits : i <= j

AllSettled(results) ==
  \A f \in DOMAIN results : results[f].status # "pending"

\* findInExternalApi, from the result of externalFetcher.fetch
ExternalSearchResult(id, externalResult) ==
  IF externalResult.status = "found" THEN Found(id, externalResult, "external")
  ELSE IF externalResult.status = "error"
  THEN NotFound(id, <<[branch |-> "External API fallback failed",
                       text |-> "fetch error"]>>, externalResult.statusCode)
  ELSE NotFound(id, <<[branch |-> "External API",
                       text |-> "Lyrics not found in external API"]>>, 404)

\* variant of Conclude that stores whatever search returns
Conclude_StoreAll(c, rB, eB) ==
  IF pc = "standard" /\ rB.status = "fulfilled" /\ eB.status = "fulfilled"
  THEN LET res == SelectResult(ID, rB, eB)
       IN /\ result' = res
          /\ settled' = [repo |-> rB, ext |-> eB]
          /\ cache' = CacheSet(c, SearchKey(ID, ToLowerCase(req.fixedVersion),
                                            req.fallback), res, now)
          /\ pc' = "done"
  ELSE /\ cache' = c
       /\ UNCHANGED <<result, pc, settled>>

\* continuation of search after Promise.allSettled, when both promises
\* have settled: the result, and the top-level entry for a found result
Conclude(c, rB, eB) ==
  IF pc = "standard" /\ rB.status = "fulfilled" /\ eB.status = "fulfilled"
  THEN LET res == SelectResult(ID, rB, eB)
       IN /\ result' = res
          /\ settled' = [repo |-> rB, ext |-> eB]
          /\ cache' = IF res.found
                      THEN CacheSet(c, SearchKey(ID, ToLowerCase(req.fixedVersion),
                                                 req.fallback), res, now)
                      ELSE c
          /\ pc' = "done"
  ELSE /\ cache' = c
       /\ UNCHANGED <<result, pc, settled>>

(* ----------------------------- actions --------------------------------- *)
\* what is remembered of a search that has returned
Summary ==
  [valid |-> TRUE, req |-> req, result |-> result, at |-> startedAt,
   fromCache |-> fromCache]

NoFixedProbes == [repo |-> NoProbe, ext |-> NoProbe]

\* search answered by the top-level entry (cache hit)
StartFromCache(c1, cachedResult) ==
  /\ result' = cachedResult
  /\ cache' = c1
  /\ pc' = "done"
  /\ fromCache' = TRUE
  /\ called' = {}
  /\ repoPhase' = "none"
  /\ repoBranch' = NoProbe
  /\ extBranch' = NoProbe
  /\ fx' = NoFixedProbes
  /\ settled' = NoSettled

\* search -> handleFixedVersionSearch, up to its first await
StartFixed(c1, cacheKey, fixedVersionQuery) ==
  LET cachedResult == CacheGetValue(c1, FixedKey(ID, fixedVersionQuery), now)
      c2 == CacheAfterGet(c1, FixedKey(ID, fixedVersionQuery), now)
  IN /\ fromCache' = FALSE
     /\ repoPhase' = "none"
     /\ repoBranch' = NoProbe
     /\ extBranch' = NoProbe
     /\ settled' = NoSettled
     /\ IF cachedResult # NoValue
        THEN /\ result' = cachedResult
             /\ cache' = IF cachedResult.found
                         THEN CacheSet(c2, cacheKey, cachedResult, now)
                         ELSE c2
             /\ pc' = "done"
             /\ called' = {}
             /\ fx' = NoFixedProbes
        ELSE /\ result' = NoResult
             /\ cache' = c2
             /\ pc' = "fixed"
             /\ IF fixedVersionQuery = "yrc" \/ fixedVersionQuery = "lrc"
                THEN /\ fx' = [repo |-> Pending, ext |-> Pending]
                     /\ called' = {"repository", "external"}
                ELSE /\ fx' = [repo |-> Pending, ext |-> NoProbe]
                     /\ called' = {"repository"}

\* search -> findAllInRepo and findInExternalApi, up to their first awaits
StartStandard(c1, cacheKey, fallbackQuery) ==
  LET formats == formatsToCheck(fallbackQuery)
      scan == ScanRepoCache(c1, ID, formats, 1, now)
      rB == IF scan.hit # NoValue
            THEN Fulfilled(Found(ID, scan.hit, "repository"))
            ELSE Pending
      cachedExternal == CacheGetValue(scan.cache, ExternalKey(ID), now)
      c3 == CacheAfterGet(scan.cache, ExternalKey(ID), now)
      eB == IF cachedExternal # NoValue THEN Fulfilled(cachedExternal)
            ELSE Pending
      res == SelectResult(ID, rB, eB)
  IN /\ fromCache' = FALSE
     /\ fx' = NoFixedProbes
     /\ repoBranch' = rB
     /\ repoPhase' = IF rB = Pending THEN "head" ELSE "settled"
     /\ extBranch' = eB
     /\ called' = (IF rB = Pending THEN {"repository"} ELSE {})
                    \cup (IF eB = Pending THEN {"external"} ELSE {})
     /\ IF rB # Pending /\ eB # Pending
        THEN /\ result' = res
             /\ settled' = [repo |-> rB, ext |-> eB]
             /\ cache' = IF res.found THEN CacheSet(c3, cacheKey, res, now)
                         ELSE c3
             /\ pc' = "done"
        ELSE /\ result' = NoResult
             /\ settled' = NoSettled
             /\ cache' = c3
             /\ pc' = "standard"

\* LyricProvider.search is called; calls of an earlier search that are
\* still unanswered stay unanswered
StartSearch(fixedVersion, fallbackQuery) ==
  LET fixedVersionQuery == ToLowerCase(fixedVersion)
      cacheKey == SearchKey(ID, fixedVersionQuery, fallbackQuery)
      cachedResult == CacheGetValue(cache, cacheKey, now)
      c1 == CacheAfterGet(cache, cacheKey, now)
  IN /\ pc \in {"idle", "done"}
     /\ nSearches < MaxSearches
     /\ nSearches' = nSearches + 1
     /\ req' = [fixedVersion |-> fixedVersion, fallback |-> fallbackQuery]
     /\ startedAt' = now
     /\ elapsed' = 0
     /\ prev' = LET last == IF pc = "done" THEN Summary ELSE prev
                IN IF last.valid /\ last.req.fixedVersion = fixedVersion
                      /\ last.req.fallback = fallbackQuery
                   THEN last ELSE NoPrev
     /\ faulty' = FALSE
     /\ foundBy' = {}
     /\ firstFound' = ""
     /\ toFetch' = ""
     /\ fetches' = <<>>
     /\ IF cachedResult # NoValue
        THEN StartFromCache(c1, cachedResult)
        ELSE IF isValidFormat(fixedVersionQuery)
        THEN StartFixed(c1, cacheKey, fixedVersionQuery)
        ELSE StartStandard(c1, cacheKey, fallbackQuery)
     /\ UNCHANGED <<repoHas, repoEmpty, extHas, cacheCall, http, gate, fetcherCall, pool, meta, now>>

\* a call of the search was answered by a fault while the search is waiting
Faulty(fault) ==
  IF pc \in {"standard", "fixed"} THEN faulty \/ fault ELSE faulty

\* the sources that have answered found while the search is waiting
SeenFound(fetchResult) ==
  IF pc \in {"standard", "fixed"} /\ fetchResult.status = "found"
  THEN foundBy \cup {fetchResult.source}
  ELSE foundBy

\* the parallel fetches of findAllInRepo are issued
LaunchParallel(formats) ==
  /\ repoPhase' = "parallel"
  /\ fetches' = [f \in {formats[i] : i \in 1..Len(formats)} |-> Pending]
  /\ toFetch' = ""
  /\ UNCHANGED repoBranch

\* checkMultipleFormatsWithWorker resolves: exists is the set of candidates
\* reported to exist (a candidate the repository holds is missed when its
\* check fails); findAllInRepo runs on to its next await
HeadChecksDone(exists) ==
  LET formats == formatsToCheck(req.fallback)
      held == {formats[i] : i \in 1..Len(formats)} \cap repoHas
      availableFormats == AvailableFormats(formats, exists)
  IN /\ repoPhase = "head"
     /\ exists \subseteq held
     /\ faulty' = Faulty(exists # held)
     /\ IF Len(availableFormats) > 0
        THEN /\ toFetch' = FormatToFetch(availableFormats)
             /\ repoPhase' = "workerFetch"
             /\ UNCHANGED <<fetches, repoBranch>>
        ELSE LaunchParallel(formats)
     /\ UNCHANGED <<repoHas, repoEmpty, extHas, cacheCall, http, gate, fetcherCall, pool, meta, cache, now, pc, req, startedAt, elapsed,
                    result, fromCache, called, firstFound, extBranch, fx,
                    settled, foundBy, nSearches, prev>>

\* the fetch of formatToFetch resolves
WorkerFetchDone(response) ==
  LET fetchResult == RepositoryFetcher_fetch(toFetch, response, RepoBody(toFetch))
      rB == Fulfilled(Found(ID, fetchResult, "repository"))
  IN /\ repoPhase = "workerFetch"
     /\ response \in RepoResponses(repoHas, toFetch, ProbeFaults)
     /\ faulty' = Faulty(response \in ProbeFaults)
     /\ IF fetchResult.status = "found"
        THEN /\ repoPhase' = "settled"
             /\ repoBranch' = rB
             /\ Conclude(cache, rB, extBranch)
             /\ UNCHANGED <<fetches, toFetch>>
        ELSE /\ LaunchParallel(formatsToCheck(req.fallback))
             /\ UNCHANGED <<cache, result, pc, settled>>
     /\ foundBy' = SeenFound(fetchResult)
     /\ UNCHANGED <<repoHas, repoEmpty, extHas, cacheCall, http, gate, fetcherCall, pool, meta, now, req, startedAt, elapsed, fromCache,
                    called, firstFound, extBranch, fx, nSearches, prev>>

\* one of the parallel fetches resolves; the last one lets findAllInRepo
\* select, cache and return
ParallelFetchDone(format, response) ==
  LET formats == formatsToCheck(req.fallback)
      fetchResult == RepositoryFetcher_fetch(format, response, RepoBody(format))
      results == [fetches EXCEPT ![format] = fetchResult]
      i == FirstFoundIndex(formats, results)
      rB == IF i = 0 THEN Fulfilled(Null)
            ELSE Fulfilled(Found(ID, results[formats[i]], "repository"))
      c1 == IF i = 0 THEN cache
            ELSE CacheSet(cache, RepoKey(ID, formats[i]), results[formats[i]], now)
  IN /\ repoPhase = "parallel"
     /\ format \in DOMAIN fetches
     /\ fetches[format] = Pending
     /\ response \in RepoResponses(repoHas, format, ProbeFaults)
     /\ fetches' = results
     /\ faulty' = Faulty(response \in ProbeFaults)
     /\ firstFound' = IF firstFound = "" /\ fetchResult.status = "found"
                      THEN format ELSE firstFound
     /\ IF AllSettled(results)
        THEN /\ repoPhase' = "settled"
             /\ repoBranch' = rB
             /\ Conclude(c1, rB, extBranch)
        ELSE /\ UNCHANGED <<repoPhase, repoBranch, cache, result, pc, settled>>
     /\ foundBy' = SeenFound(fetchResult)
     /\ UNCHANGED <<repoHas, repoEmpty, extHas, cacheCall, http, gate, fetcherCall, pool, meta, now, req, startedAt, elapsed, fromCache,
                    called, toFetch, extBranch, fx, nSearches, prev>>

\* externalFetcher.fetch(id, undefined) resolves in findInExternalApi
ExternalDone(response) ==
  LET externalResult == ExternalApiFetcher_fetch(extHas, "", response)
      value == ExternalSearchResult(ID, externalResult)
      eB == Fulfilled(value)
      c1 == IF value.found THEN CacheSet(cache, ExternalKey(ID), value, now)
            ELSE cache
  IN /\ extBranch = Pending
     /\ response \in ExtResponses
     /\ extBranch' = eB
     /\ faulty' = Faulty(response \in ExtFaults)
     /\ Conclude(c1, repoBranch, eB)
     /\ foundBy' = SeenFound(externalResult)
     /\ UNCHANGED <<repoHas, repoEmpty, extHas, cacheCall, http, gate, fetcherCall, pool, meta, now, req, startedAt, elapsed, fromCache,
                    called, repoPhase, repoBranch, toFetch, fetches,
                    firstFound, fx, nSearches, prev>>

\* the timer of TOTAL_TIMEOUT_MS fires: the pending branches are rejected
\* and search returns; the branches themselves run on
GlobalTimeout ==
  LET res == SelectResult(ID, RaceWithGlobalTimeout(repoBranch),
                          RaceWithGlobalTimeout(extBranch))
  IN /\ pc = "standard"
     /\ elapsed >= TOTAL_TIMEOUT_MS
     /\ result' = res
     /\ settled' = [repo |-> RaceWithGlobalTimeout(repoBranch),
                    ext |-> RaceWithGlobalTimeout(extBranch)]
     /\ cache' = IF res.found
                 THEN CacheSet(cache, SearchKey(ID, ToLowerCase(req.fixedVersion),
                                                req.fallback), res, now)
                 ELSE cache
     /\ pc' = "done"
     /\ UNCHANGED <<repoHas, repoEmpty, extHas, cacheCall, http, gate, fetcherCall, pool, meta, now, req, startedAt, elapsed, fromCache,
                    called, faulty, repoPhase, repoBranch, toFetch, fetches,
                    firstFound, extBranch, fx, foundBy, nSearches, prev>>

(* ------------------------- fixed-format path --------------------------- *)
\* variant of FixedPairStatus that reports 500 whenever nothing was found
FixedPairStatus_AlwaysError(repoOutcome, externalOutcome) ==
  LET repoStatusCode == IF repoOutcome.status = "error"
                        THEN repoOutcome.statusCode ELSE 0
      externalStatusCode == IF externalOutcome.status = "error"
                            THEN externalOutcome.statusCode ELSE 0
  IN IF repoStatusCode # 0 /\ repoStatusCode >= 500 THEN repoStatusCode
     ELSE IF externalStatusCode # 0 /\ externalStatusCode >= 500
     THEN externalStatusCode
     ELSE IF repoStatusCode # 0 THEN repoStatusCode
     ELSE IF externalStatusCode # 0 THEN externalStatusCode
     ELSE 500

\* statusCode of handleFixedVersionSearch for yrc/lrc when neither fetch
\* found the format
FixedPairStatus(repoOutcome, externalOutcome) ==
  LET repoStatusCode == IF repoOutcome.status = "error"
                        THEN repoOutcome.statusCode ELSE 0
      externalStatusCode == IF externalOutcome.status = "error"
                            THEN externalOutcome.statusCode ELSE 0
      anyError == repoOutcome.status = "error" \/ externalOutcome.status = "error"
  IN IF ~anyError THEN 404
     ELSE IF repoStatusCode # 0 /\ repoStatusCode >= 500 THEN repoStatusCode
     ELSE IF externalStatusCode # 0 /\ externalStatusCode >= 500
     THEN externalStatusCode
     ELSE IF repoStatusCode # 0 THEN repoStatusCode
     ELSE IF externalStatusCode # 0 THEN externalStatusCode
     ELSE 500

FixedPairErrors(repoOutcome, externalOutcome) ==
  (IF repoOutcome.status = "error"
   THEN <<[branch |-> "Repo", text |-> "fetch error"]>> ELSE <<>>)
  \o (IF externalOutcome.status = "error"
      THEN <<[branch |-> "External", text |-> "fetch error"]>> ELSE <<>>)

\* handleFixedVersionSearch, from the outcomes of its fetches
FixedResult(id, fixedVersionQuery, repoOutcome, externalOutcome) ==
  IF fixedVersionQuery = "yrc" \/ fixedVersionQuery = "lrc"
  THEN IF repoOutcome.status = "found"
       THEN Found(id, repoOutcome, "repository")
       ELSE IF externalOutcome.status = "found"
       THEN Found(id, externalOutcome, "external")
       ELSE NotFound(id, FixedPairErrors(repoOutcome, externalOutcome),
                     FixedPairStatus(repoOutcome, externalOutcome))
  ELSE IF repoOutcome.status = "found"
       THEN Found(id, repoOutcome, "repository")
       ELSE IF repoOutcome.status = "error"
       THEN NotFound(id, <<[branch |-> "Repo", text |-> "fetch error"]>>,
                     repoOutcome.statusCode)
       ELSE NotFound(id, <<>>, 404)

\* handleFixedVersionSearch returns and search caches a found result
ConcludeFixed(probes) ==
  LET fixedVersionQuery == ToLowerCase(req.fixedVersion)
      res == FixedResult(ID, fixedVersionQuery, probes.repo, probes.ext)
      c1 == IF res.found
            THEN CacheSet(cache, FixedKey(ID, fixedVersionQuery), res, now)
            ELSE cache
  IN IF probes.repo # Pending /\ probes.ext # Pending
     THEN /\ result' = res
          /\ cache' = IF res.found
                      THEN CacheSet(c1, SearchKey(ID, fixedVersionQuery,
                                                  req.fallback), res, now)
                      ELSE c1
          /\ pc' = "done"
     ELSE UNCHANGED <<result, cache, pc>>

\* repoFetcher.fetch(id, fixedVersionQuery) resolves
FixedRepoDone(response) ==
  LET fixedVersionQuery == ToLowerCase(req.fixedVersion)
      probes == [fx EXCEPT !.repo = RepositoryFetcher_fetch(fixedVersionQuery,
                                       response, RepoBody(fixedVersionQuery))]
  IN /\ pc = "fixed"
     /\ fx.repo = Pending
     /\ response \in RepoResponses(repoHas, fixedVersionQuery, RepoFaults)
     /\ fx' = probes
     /\ faulty' = Faulty(response \in RepoFaults)
     /\ ConcludeFixed(probes)
     /\ foundBy' = SeenFound(probes.repo)
     /\ UNCHANGED <<repoHas, repoEmpty, extHas, cacheCall, http, gate, fetcherCall, pool, meta, now, req, startedAt, elapsed, fromCache,
                    called, repoPhase, repoBranch, toFetch, fetches,
                    firstFound, extBranch, settled, nSearches, prev>>

\* externalFetcher.fetch(id, fixedVersionQuery) resolves
FixedExternalDone(response) ==
  LET fixedVersionQuery == ToLowerCase(req.fixedVersion)
      probes == [fx EXCEPT !.ext = ExternalApiFetcher_fetch(extHas,
                                       fixedVersionQuery, response)]
  IN /\ pc = "fixed"
     /\ fx.ext = Pending
     /\ response \in ExtResponses
     /\ fx' = probes
     /\ faulty' = Faulty(response \in ExtFaults)
     /\ ConcludeFixed(probes)
     /\ foundBy' = SeenFound(probes.ext)
     /\ UNCHANGED <<repoHas, repoEmpty, extHas, cacheCall, http, gate, fetcherCall, pool, meta, now, req, startedAt, elapsed, fromCache,
                    called, repoPhase, repoBranch, toFetch, fetches,
                    firstFound, extBranch, settled, nSearches, prev>>

(* -------------------------------- time --------------------------------- *)
\* time passes while a search waits for its calls; on the standard path
\* the timer fires as soon as the deadline is reached
Tick ==
  /\ pc \in {"standard", "fixed"}
  /\ elapsed < MaxElapsedMs
  /\ pc = "standard" => elapsed < TOTAL_TIMEOUT_MS
  /\ elapsed' = elapsed + TickMs
  /\ UNCHANGED <<repoHas, repoEmpty, extHas, cacheCall, http, gate, fetcherCall, pool, meta, cache, now, pc, req, startedAt, result,
                 fromCache, called, faulty, repoPhase, repoBranch, toFetch,
                 fetches, firstFound, extBranch, fx, settled, foundBy,
                 nSearches, prev>>

\* the cache clock advances after a search has returned; calls of that
\* search that are still unanswered stay unanswered
AdvanceClock ==
  /\ pc = "done"
  /\ now < MaxNow
  /\ now' \in (now + 1)..MaxNow
  /\ pc' = "idle"
  /\ prev' = Summary
  /\ req' = NoRequest
  /\ startedAt' = 0
  /\ elapsed' = 0
  /\ result' = NoResult
  /\ fromCache' = FALSE
  /\ called' = {}
  /\ faulty' = FALSE
  /\ repoPhase' = "none"
  /\ repoBranch' = NoProbe
  /\ toFetch' = ""
  /\ fetches' = <<>>
  /\ firstFound' = ""
  /\ extBranch' = NoProbe
  /\ fx' = NoFixedProbes
  /\ settled' = NoSettled
  /\ foundBy' = {}
  /\ UNCHANGED <<repoHas, repoEmpty, extHas, cacheCall, http, gate, fetcherCall, pool, meta, cache, nSearches>>

Next ==
  \/ \E r \in Requests : StartSearch(r.fixedVersion, r.fallback)
  \/ \E exists \in SUBSET repoHas : HeadChecksDone(exists)
  \/ \E response \in {200, 404} \cup RepoFaults : WorkerFetchDone(response)
  \/ \E format \in {ALLOWED_FORMATS[i] : i \in 1..Len(ALLOWED_FORMATS)},
        response \in {200, 404} \cup RepoFaults :
       ParallelFetchDone(format, response)
  \/ \E response \in ExtResponses : ExternalDone(response)
  \/ GlobalTimeout
  \/ \E response \in {200, 404} \cup RepoFaults : FixedRepoDone(response)
  \/ \E response \in ExtResponses : FixedExternalDone(response)
  \/ Tick
  \/ AdvanceClock

Spec == Init /\ [][Next]_vars

(* ------------------------- properties of search ------------------------ *)
\* the current search took the standard path (no valid fixedVersion)
StandardSearch == ~isValidFormat(ToLowerCase(req.fixedVersion))

BothSources == {"repository", "external"}

RepoAnsweredTruthfully ==
  /\ pc = "done"
  /\ StandardSearch
  /\ ~fromCache
  /\ ~faulty
  /\ settled.repo.status = "fulfilled"

\* C2, as stated: whenever the repository holds ttml, a standard search the
\* repository answers truthfully and in time returns the repository's ttml,
\* whatever earlier searches left in the cache.
C2_TtmlPriority ==
  (RepoAnsweredTruthfully /\ "ttml" \in repoHas)
    => (result.found /\ result.format = "ttml" /\ result.source = "repository")

\* the parallel fetches of findAllInRepo have all resolved
SelectedAmongFetches ==
  /\ repoPhase = "settled"
  /\ fetches # <<>>
  /\ AllSettled(fetches)

\* C3: when findAllInRepo has fetched its candidates in parallel, it returns
\* the candidate that comes first in the candidate list among those whose
\* fetch returned found, and null when none did, in whatever order the
\* fetches resolved.
C3_SelectionByListOrder ==
  SelectedAmongFetches =>
    LET formats == formatsToCheck(req.fallback)
        value == repoBranch.value
    IN IF \A f \in DOMAIN fetches : fetches[f].status # "found"
       THEN value = Null
       ELSE /\ value # Null
            /\ value.found
            /\ value.source = "repository"
            /\ \E i \in 1..Len(formats) :
                 /\ formats[i] = value.format
                 /\ fetches[formats[i]].status = "found"
                 /\ \A j \in 1..(i - 1) : fetches[formats[j]].status # "found"

\* a later candidate resolved found before the candidate that is returned
C3_Witness ==
  /\ SelectedAmongFetches
  /\ firstFound # ""
  /\ repoBranch.value # Null
  /\ repoBranch.value.format # firstFound

\* C4, as stated: with lrc and yrc in the repository and no ttml, a search
\* with fallback "lrc,yrc" that the repository answers truthfully and in time
\* returns lrc, whichever searches were served before.
C4_FallbackOrder ==
  (RepoAnsweredTruthfully /\ repoHas = {"yrc", "lrc"}
     /\ req.fallback = <<"lrc", "yrc">>)
    => (result.found /\ result.format = "lrc")

CandidateSet == {formatsToCheck(req.fallback)[i] :
                   i \in 1..Len(formatsToCheck(req.fallback))}

\* C5: in a standard search where the repository holds none of the candidate
\* formats, the external API has yrc and answers before the deadline, and no
\* call is answered by a fault, the search returns yrc from the external
\* source.
C5_ExternalFallback ==
  (/\ pc = "done" /\ StandardSearch /\ ~fromCache /\ ~faulty
   /\ CandidateSet \cap repoHas = {}
   /\ "yrc" \in extHas
   /\ settled.ext.status = "fulfilled")
    => (result.found /\ result.source = "external" /\ result.format = "yrc")

\* the external API was queried, holds yrc and lrc, and its yrc is returned
\* after findAllInRepo found nothing
C5_Witness ==
  /\ pc = "done" /\ StandardSearch /\ ~faulty
  /\ CandidateSet \cap repoHas = {}
  /\ extHas = {"yrc", "lrc"}
  /\ called = BothSources
  /\ settled.repo = Fulfilled(Null)
  /\ settled.ext.status = "fulfilled"
  /\ result.found /\ result.source = "external" /\ result.format = "yrc"

\* the previous search had the same options as the current one and started
\* no longer than the ttl before it
SameSearchWithinTtl ==
  /\ pc = "done"
  /\ prev.valid
  /\ prev.req = req
  /\ startedAt - prev.at <= TtlTicks

\* C6: no cache entry holds a found:false result, no search is answered
\* found:false from the cache, and a search that repeats one that returned
\* found:false is not answered from the top-level entry.
C6_FailuresNotCached ==
  /\ \A i \in 1..Len(cache) :
       IF cache[i].key[1] = "repo" THEN cache[i].data.status = "found"
       ELSE cache[i].data.found
  /\ (pc = "done" /\ fromCache) => result.found
  /\ (SameSearchWithinTtl /\ ~prev.result.found) => ~fromCache

\* a search that returned found:false is repeated within the ttl, queries
\* the sources again and succeeds
C6_Witness ==
  /\ SameSearchWithinTtl
  /\ ~prev.result.found
  /\ ~fromCache
  /\ called # {}
  /\ result.found

\* C7, as stated: when the same search is issued twice within the ttl, the
\* second call returns what the first returned and invokes no adapter.
C7_CacheIdempotence ==
  SameSearchWithinTtl => (result = prev.result /\ called = {})

\* C7, amended: when the same search is issued twice, the second within the
\* ttl of the moment the first stored its found result, the second call
\* returns what the first returned and invokes no adapter.
C7_CacheIdempotenceAfterFound ==
  (SameSearchWithinTtl /\ prev.result.found /\ ~prev.fromCache)
    => (result = prev.result /\ called = {} /\ fromCache)

\* the second call comes after the clock has advanced and is answered from
\* the entry the first call stored
C7_Witness ==
  /\ SameSearchWithinTtl
  /\ prev.result.found
  /\ ~prev.fromCache
  /\ startedAt > prev.at
  /\ fromCache
  /\ result = prev.result
  /\ called = {}

\* the global deadline fired with both branches of the search unsettled
BothTimedOut ==
  /\ pc = "done"
  /\ StandardSearch
  /\ settled.repo.status = "rejected"
  /\ settled.ext.status = "rejected"

\* C8: when both branches of a standard search are still unsettled at the
\* global deadline, the search returns found:false with statusCode 408 or
\* 500 and an error that carries the sub-error of the repository branch and
\* the sub-error of the external branch.
C8_BothTimedOut ==
  BothTimedOut =>
    /\ ~result.found
    /\ result.statusCode \in {408, 500}
    /\ \E i \in 1..Len(result.error) :
         /\ result.error[i].branch = "Repo Error"
         /\ result.error[i].text = AbortReason
    /\ \E i \in 1..Len(result.error) :
         /\ result.error[i].branch = "External API Error"
         /\ result.error[i].text = AbortReason

\* both sources were queried, neither answered in 6000 ms, and 408 is
\* returned
C8_Witness ==
  /\ BothTimedOut
  /\ called = BothSources
  /\ elapsed >= TOTAL_TIMEOUT_MS
  /\ ~result.found
  /\ result.statusCode = 408

\* C9, as stated: no search, on the fixed-format or the standard path, is
\* still waiting for its sources once the global deadline and the grace have
\* passed.
C9_ReturnsWithinDeadline ==
  pc \in {"standard", "fixed"} => elapsed <= TOTAL_TIMEOUT_MS + GraceMs

\* status a settled branch of search contributes to an aggregated failure
BranchStatus(branch) ==
  IF branch.status = "rejected" THEN 408
  ELSE IF branch.value = Null THEN 404
  ELSE branch.value.statusCode

\* C10, as stated: the statusCode of an aggregated failure is a 5xx status
\* reported by a branch if there is one, else 408 if a branch timed out,
\* else 404.
C10_StatusPriority ==
  (pc = "done" /\ StandardSearch /\ ~fromCache /\ ~result.found) =>
    LET codes == {BranchStatus(settled.repo), BranchStatus(settled.ext)}
    IN IF \E c \in codes : c >= 500
       THEN result.statusCode \in {c \in codes : c >= 500}
       ELSE IF 408 \in codes THEN result.statusCode = 408
       ELSE result.statusCode = 404

\* a call of the standard search was answered with an upstream 5xx:
\* a repository fetch or the external fetch
Upstream5xx ==
  \/ \E f \in DOMAIN fetches :
       fetches[f].status = "error" /\ fetches[f].statusCode >= 500
  \/ /\ settled.ext.status = "fulfilled"
     /\ ~settled.ext.value.found
     /\ settled.ext.value.statusCode >= 500

\* C11, as stated: a standard search in which both branches settled in time
\* and found nothing returns statusCode 502 when a repository fetch or the
\* external fetch was answered with an upstream 5xx, and 404 otherwise.
C11_UpstreamErrorStatus ==
  (/\ pc = "done" /\ StandardSearch /\ ~fromCache /\ ~result.found
   /\ settled.repo.status = "fulfilled"
   /\ settled.ext.status = "fulfilled")
    => result.statusCode = IF Upstream5xx THEN 502 ELSE 404

\* the current search took the fixed-format path and fetched from the
\* repository
FixedSearchFetched ==
  /\ pc = "done"
  /\ ~StandardSearch
  /\ ~fromCache
  /\ fx.repo.status \notin {"none", "pending"}

\* C12, as stated: a fixed-format search whose repository fetch returned an
\* error returns found:false with statusCode 502 when the upstream status
\* is 500 or more, and 500 otherwise (also without an upstream status).
C12_FixedRepoErrorStatus ==
  (FixedSearchFetched /\ fx.repo.status = "error")
    => /\ ~result.found
       /\ result.statusCode = IF fx.repo.statusCode >= 500 THEN 502 ELSE 500

\* C13, as stated: while a fixed-format search is waiting or has returned,
\* the external API has been called only if the fixed format is yrc or lrc
\* and the repository fetch for that format has returned notfound.
C13_ExternalOnlyAfterRepoNotFound ==
  (pc \in {"fixed", "done"} /\ ~StandardSearch /\ "external" \in called)
    => /\ ToLowerCase(req.fixedVersion) \in {"yrc", "lrc"}
       /\ fx.repo.status = "notfound"

\* C14: a fixed-format search whose repository fetch returned notfound, and
\* whose external fetch was not made (format other than yrc, lrc) or
\* returned notfound too, returns found:false with statusCode 404.
C14_FixedNotFound ==
  (FixedSearchFetched /\ fx.repo.status = "notfound"
     /\ fx.ext.status \in {"none", "notfound"})
    => (~result.found /\ result.statusCode = 404)

\* fixed yrc: the repository and the external API both answered notfound
C14_Witness ==
  /\ FixedSearchFetched
  /\ ToLowerCase(req.fixedVersion) = "yrc"
  /\ fx.repo.status = "notfound"
  /\ fx.ext.status = "notfound"
  /\ ~result.found
  /\ result.statusCode = 404

\* a branch of the search delivered a found result before search returned
BranchDeliveredFound ==
  \/ IsFoundValue(settled.repo)
  \/ IsFoundValue(settled.ext)
  \/ fx.repo.status = "found"
  \/ fx.ext.status = "found"

\* C15: a search in which the repository branch or the external branch
\* delivered a found result before the deadline returns a found result,
\* whatever the other branch did.
C15_FoundNeverDiscarded ==
  (pc = "done" /\ ~fromCache /\ BranchDeliveredFound) => result.found

\* the external branch found a lyric, findAllInRepo was cut by the deadline,
\* and the external lyric is returned
C15_Witness ==
  /\ pc = "done"
  /\ StandardSearch
  /\ settled.repo.status = "rejected"
  /\ IsFoundValue(settled.ext)
  /\ result.found
  /\ result.source = "external"

\* C16: when one of the parallel fetches of findAllInRepo returned an error,
\* findAllInRepo settles only after the fetches of all other candidates
\* have resolved, and when one of them returned found, before or after the
\* failed one in the list, a candidate whose fetch returned found is
\* returned.
C16_PartialFailureTolerance ==
  (repoPhase \in {"parallel", "settled"} /\ fetches # <<>>
     /\ \E f \in DOMAIN fetches : fetches[f].status = "error")
    => /\ \A g \in DOMAIN fetches :
            fetches[g].status \in {"pending", "found", "notfound", "error"}
       /\ repoPhase = "settled" =>
            /\ AllSettled(fetches)
            /\ (\E g \in DOMAIN fetches : fetches[g].status = "found")
                 => /\ repoBranch.value # Null
                    /\ repoBranch.value.found
                    /\ fetches[repoBranch.value.format].status = "found"

\* the fetch of ttml failed, the fetch of a later candidate returned found
\* and that candidate is returned
C16_Witness ==
  /\ SelectedAmongFetches
  /\ fetches["ttml"].status = "error"
  /\ repoBranch.value # Null
  /\ repoBranch.value.found
  /\ repoBranch.value.format # "ttml"

(* ---------------------- the candidate list on its own ------------------ *)
\* entries a client may write between the commas of a fallback string
FallbackTokens == {"", "bogus", "TTML", "YRC", " lrc", "yrc", "lrc"}

RECURSIVE TokenLists(_)
TokenLists(n) ==
  IF n = 0 THEN {<<>>}
  ELSE TokenLists(n - 1)
       \cup {Append(s, t) : s \in {u \in TokenLists(n - 1) : Len(u) = n - 1},
                            t \in FallbackTokens}

\* standard searches with every fallback string of up to MaxTokens entries
StartSearchWithFallback == \E fb \in TokenLists(MaxTokens) : StartSearch("", fb)

CandidatesSpec == Init /\ [][StartSearchWithFallback]_vars

\* the format an entry of the fallback string stands for after trimming and
\* lower-casing
Canonical(token) ==
  CASE token \in {"ttml", "TTML"} -> "ttml"
    [] token \in {"yrc", "YRC", "yrc "} -> "yrc"
    [] token \in {"lrc", "LRC", " lrc"} -> "lrc"
    [] OTHER -> token

FirstPosition(fb, format) ==
  CHOOSE i \in 1..Len(fb) :
    /\ Canonical(fb[i]) = format
    /\ \A j \in 1..(i - 1) : Canonical(fb[j]) # format

C18_FixedPathDecision ==
  LET requested == Canonical(req.fixedVersion)
      valid == requested \in {ALLOWED_FORMATS[n] : n \in 1..Len(ALLOWED_FORMATS)}
  IN /\ pc = "fixed" => valid
     /\ pc = "standard" => ~valid
     /\ (pc = "done" /\ ~fromCache) => (valid <=> repoPhase = "none")
     /\ (pc \in {"fixed", "done"} /\ valid) =>
          /\ fetches = <<>>
          /\ repoBranch = NoProbe /\ extBranch = NoProbe
          /\ toFetch = "" /\ firstFound = ""
          /\ fx.repo.status = "found" => fx.repo.format = requested
          /\ fx.ext.status = "found" => fx.ext.format = requested
          /\ (pc = "done" /\ result.found) => result.format = requested

\* an upper-case fixedVersion took the fixed-format path and returned the
\* requested format from the repository
C18_Witness ==
  /\ pc = "done"
  /\ ~fromCache
  /\ req.fixedVersion = "TTML"
  /\ fx.repo.status = "found"
  /\ result.found
  /\ result.format = "ttml"
  /\ result.source = "repository"

(* ----------------------------- determinism ----------------------------- *)
\* what a standard search returns on an empty cache when every call is
\* answered truthfully and before the deadline
FreshStandardResult(fallbackQuery) ==
  LET formats == formatsToCheck(fallbackQuery)
      held == {formats[i] : i \in 1..Len(formats)} \cap repoHas
      availableFormats == AvailableFormats(formats, held)
      repoValue ==
        IF Len(availableFormats) > 0
        THEN Found(ID, RepositoryFetcher_fetch(FormatToFetch(availableFormats),
                                               200,
                                               RepoBody(FormatToFetch(availableFormats))),
                   "repository")
        ELSE Null
      extValue == ExternalSearchResult(ID, ExternalApiFetcher_fetch(extHas, "", 200))
  IN SelectResult(ID, Fulfilled(repoValue), Fulfilled(extValue))

\* the same for the fixed-format path
FreshFixedResult(fixedVersionQuery) ==
  LET repoOutcome ==
        RepositoryFetcher_fetch(fixedVersionQuery,
                                IF fixedVersionQuery \in repoHas THEN 200 ELSE 404,
                                RepoBody(fixedVersionQuery))
      externalOutcome ==
        IF fixedVersionQuery = "yrc" \/ fixedVersionQuery = "lrc"
        THEN ExternalApiFetcher_fetch(extHas, fixedVersionQuery, 200)
        ELSE NoProbe
  IN FixedResult(ID, fixedVersionQuery, repoOutcome, externalOutcome)

FreshResult ==
  IF isValidFormat(ToLowerCase(req.fixedVersion))
  THEN FreshFixedResult(ToLowerCase(req.fixedVersion))
  ELSE FreshStandardResult(req.fallback)

\* the current search met no fault and no deadline
CleanRun ==
  /\ pc = "done"
  /\ ~faulty
  /\ settled.repo.status # "rejected"
  /\ settled.ext.status # "rejected"

\* C19: a search whose calls were all answered truthfully and in time
\* returns what the same options return against the same upstream state on
\* an empty cache, whatever earlier requests left in the cache.
C19_Deterministic == CleanRun => result = FreshResult

(* ------------------------- content of a result ------------------------- *)
\* repositories in which some files are empty
EmptyBodyStates ==
  {[has |-> {"ttml", "yrc"}, empty |-> {"ttml"}],
   [has |-> {"yrc", "lrc"}, empty |-> {"yrc", "lrc"}],
   [has |-> {"ttml", "yrc"}, empty |-> {}]}

InitEmptyBodies ==
  /\ \E r \in EmptyBodyStates : repoHas = r.has /\ repoEmpty = r.empty
  /\ extHas \in ExtStates
  /\ InitSearch

EmptyBodySpec == InitEmptyBodies /\ [][Next]_vars

\* C20: a found result that search returned has at least one line of
\* content, whether it came from the repository, the external API or the
\* cache.
C20_FoundContentNonEmpty ==
  (pc = "done" /\ result.found) => result.content # <<>>

(* ----------------------- translation and romaji ------------------------ *)
\* requests that name tlyric or romalrc, as fixedVersion or in the fallback
SideRequests ==
  { [fixedVersion |-> "tlyric", fallback |-> <<>>],
    [fixedVersion |-> "romalrc", fallback |-> <<>>],
    [fixedVersion |-> "", fallback |-> <<"romalrc", "tlyric">>] }

\* repositories that hold a tlyric or romalrc file for ID
SideRepoStates == {{"tlyric", "romalrc"}, {"romalrc"}, {"ttml", "tlyric"}}

InitSideFormats ==
  /\ repoHas \in SideRepoStates
  /\ repoEmpty = {}
  /\ extHas \in ExtStates
  /\ InitSearch

\* the steps of searches for SideRequests; none of them starts the external
\* fetch of the fixed-format path, which is made for yrc and lrc only
NextSideFormats ==
  \/ \E r \in SideRequests : StartSearch(r.fixedVersion, r.fallback)
  \/ \E exists \in SUBSET repoHas : HeadChecksDone(exists)
  \/ \E response \in {200, 404} \cup RepoFaults : WorkerFetchDone(response)
  \/ \E format \in {ALLOWED_FORMATS[i] : i \in 1..Len(ALLOWED_FORMATS)},
        response \in {200, 404} \cup RepoFaults :
       ParallelFetchDone(format, response)
  \/ \E response \in ExtResponses : ExternalDone(response)
  \/ GlobalTimeout
  \/ \E response \in {200, 404} \cup RepoFaults : FixedRepoDone(response)
  \/ Tick
  \/ AdvanceClock

SideFormatSpec == InitSideFormats /\ [][NextSideFormats]_vars

\* C21: no found result that search returned has format tlyric or romalrc.
C21_NoSideChannelFormat ==
  (pc = "done" /\ result.found) => result.format \notin {"tlyric", "romalrc"}

(* --------------------------- the Cache class --------------------------- *)
\* keys and values of direct calls; one key more than the base capacity
CacheKeys == {"k1", "k2", "k3", "k4"}

\* values are records, as the results are that the searches store
CacheValues == {[content |-> "v1"], [content |-> "v2"]}

\* the variables of a search, which a direct call of Cache leaves alone
searchVars ==
  <<repoHas, repoEmpty, extHas, http, gate, fetcherCall, pool, meta, pc, req, startedAt, elapsed, result,
    fromCache, called, faulty, repoPhase, repoBranch, toFetch, fetches,
    firstFound, extBranch, fx, settled, foundBy, nSearches, prev>>

InitCache ==
  /\ repoHas = {}
  /\ repoEmpty = {}
  /\ extHas = {}
  /\ InitSearch

Cache_get(key) ==
  /\ cache' = CacheAfterGet(cache, key, now)
  /\ cacheCall' = [op |-> "get", key |-> key,
                   returned |-> CacheGetValue(cache, key, now)]
  /\ UNCHANGED <<now, searchVars>>

Cache_set(key, data) ==
  /\ cache' = CacheSet(cache, key, data, now)
  /\ cacheCall' = [op |-> "set", key |-> key, data |-> data,
                   evicted |-> EvictedKey(cache)]
  /\ UNCHANGED <<now, searchVars>>

Cache_cleanup ==
  /\ cache' = CacheCleanup(cache, now)
  /\ cacheCall' = [op |-> "cleanup",
                   returned |-> Len(cache) - Len(CacheCleanup(cache, now))]
  /\ UNCHANGED <<now, searchVars>>

Cache_invalidate(key) ==
  /\ cache' = CacheInvalidate(cache, key)
  /\ cacheCall' = [op |-> "invalidate", key |-> key,
                   returned |-> IndexOfKey(cache, key) # 0]
  /\ UNCHANGED <<now, searchVars>>

Cache_clear ==
  /\ cache' = <<>>
  /\ cacheCall' = [op |-> "clear"]
  /\ UNCHANGED <<now, searchVars>>

\* Date.now() advances between two calls
ClockTick ==
  /\ now < MaxNow
  /\ now' = now + 1
  /\ cacheCall' = NoCall
  /\ UNCHANGED <<cache, searchVars>>

NextCache ==
  \/ \E key \in CacheKeys : Cache_get(key)
  \/ \E key \in CacheKeys, data \in CacheValues : Cache_set(key, data)
  \/ Cache_cleanup
  \/ \E key \in CacheKeys : Cache_invalidate(key)
  \/ Cache_clear
  \/ ClockTick

CacheSpec == InitCache /\ [][NextCache]_vars

\* the entry stored under key (only used when there is one)
EntryOf(c, key) == c[CHOOSE i \in 1..Len(c) : c[i].key = key]

HasKey(c, key) == \E i \in 1..Len(c) : c[i].key = key

\* C22: a call get(key) returns the stored value exactly when key is
\* present with an age of at most the TTL, and null otherwise; it removes
\* the entry of key when that entry is expired and changes nothing else, in
\* particular not the timestamp of the entry it returns.
C22_CacheGet ==
  [][cacheCall'.op = "get" =>
       LET key == cacheCall'.key
           fresh == HasKey(cache, key)
                    /\ now - EntryOf(cache, key).timestamp <= TtlTicks
       IN /\ cacheCall'.returned = IF fresh THEN EntryOf(cache, key).data
                                   ELSE NoValue
          /\ cache' = IF HasKey(cache, key) /\ ~fresh
                      THEN SelectSeq(cache, LAMBDA entry : entry.key # key)
                      ELSE cache]_vars

\* get returned a value whose age is exactly the TTL
C22_Witness ==
  /\ cacheCall.op = "get"
  /\ cacheCall.returned \in CacheValues
  /\ HasKey(cache, cacheCall.key)
  /\ EntryOf(cache, cacheCall.key).data = cacheCall.returned
  /\ now - EntryOf(cache, cacheCall.key).timestamp = TtlTicks

Entries(c) == {c[i] : i \in 1..Len(c)}

\* C23: a call set(key, value) on a full cache removes one entry, one of
\* oldest timestamp, and on a cache below capacity removes none; it then
\* stores value under key with the current time, leaving every other
\* remaining entry as it was, and get(key) returns value.
C23_CacheSet ==
  [][cacheCall'.op = "set" =>
       LET key == cacheCall'.key
           new == [key |-> key, data |-> cacheCall'.data, timestamp |-> now]
           replaced == {e \in Entries(cache) : e.key = key}
       IN /\ Len(cache') = Cardinality(Entries(cache'))
          /\ IF Len(cache) >= MaxSize
             THEN \E victim \in Entries(cache) :
                    /\ \A e \in Entries(cache) : victim.timestamp <= e.timestamp
                    /\ Entries(cache')
                         = ((Entries(cache) \ {victim}) \ replaced) \cup {new}
             ELSE Entries(cache') = (Entries(cache) \ replaced) \cup {new}
          /\ CacheGetValue(cache', key, now) = cacheCall'.data]_vars

\* set on a full cache evicted the oldest entry and stored a new key
C23_Witness ==
  /\ cacheCall.op = "set"
  /\ cacheCall.evicted \in CacheKeys \ {cacheCall.key}
  /\ ~HasKey(cache, cacheCall.evicted)
  /\ Len(cache) = MaxSize
  /\ EntryOf(cache, cacheCall.key).timestamp = now
  /\ \E e \in Entries(cache) : e.timestamp < now

\* C24: a call cleanup() removes exactly the entries whose age exceeds the
\* TTL and returns their number; the entries that remain are unchanged and
\* none of them is expired.
C24_CacheCleanup ==
  [][cacheCall'.op = "cleanup" =>
       LET expired == {e \in Entries(cache) : now - e.timestamp > TtlTicks}
       IN /\ Entries(cache') = Entries(cache) \ expired
          /\ Len(cache') = Len(cache) - Cardinality(expired)
          /\ cacheCall'.returned = Cardinality(expired)
          /\ \A e \in Entries(cache') : now - e.timestamp <= TtlTicks]_vars

\* cleanup removed an expired entry and kept one whose age is exactly the TTL
C24_Witness ==
  /\ cacheCall.op = "cleanup"
  /\ cacheCall.returned >= 1
  /\ \E e \in Entries(cache) : now - e.timestamp = TtlTicks

\* C25: an entry that is present and not expired stays as it is, key, value
\* and timestamp, through every step, unless a set on a full cache evicts
\* it as the oldest entry.
C25_InsertExpiryEvictionOnly ==
  [][\A e \in Entries(cache) :
       now - e.timestamp <= TtlTicks =>
         \/ e \in Entries(cache')
         \/ /\ cacheCall'.op = "set"
            /\ cacheCall'.evicted = e.key]_vars

(* --------------------------- request shapes ---------------------------- *)
\* requests of which several have the same shape: the same fixedVersion up
\* to case, the same fallback order up to case and blanks
ShapeRequests ==
  { [fixedVersion |-> "", fallback |-> <<"lrc", "yrc">>],
    [fixedVersion |-> "", fallback |-> <<" lrc", "YRC">>],
    [fixedVersion |-> "TTML", fallback |-> <<>>],
    [fixedVersion |-> "ttml", fallback |-> <<>>],
    [fixedVersion |-> "yrc", fallback |-> <<>>] }

NextShapes ==
  \/ \E r \in ShapeRequests : StartSearch(r.fixedVersion, r.fallback)
  \/ \E exists \in SUBSET repoHas : HeadChecksDone(exists)
  \/ \E response \in {200, 404} \cup RepoFaults : WorkerFetchDone(response)
  \/ \E format \in {ALLOWED_FORMATS[i] : i \in 1..Len(ALLOWED_FORMATS)},
        response \in {200, 404} \cup RepoFaults :
       ParallelFetchDone(format, response)
  \/ \E response \in ExtResponses : ExternalDone(response)
  \/ GlobalTimeout
  \/ \E response \in {200, 404} \cup RepoFaults : FixedRepoDone(response)
  \/ \E response \in ExtResponses : FixedExternalDone(response)
  \/ Tick
  \/ AdvanceClock

ShapeSpec == Init /\ [][NextShapes]_vars

\* the shape of the current request
ShapeOfRequest ==
  [fixed |-> ToLowerCase(req.fixedVersion),
   order |-> formatsToCheck(req.fallback)]

\* the shape of the request that stored a top-level entry
ShapeOfKey(key) ==
  [fixed |-> IF key[3] = "none" THEN "" ELSE key[3],
   order |-> formatsToCheck(IF key[4] = <<"none">> THEN <<>> ELSE key[4])]

\* C26: a search is never in flight while the cache holds a live top-level
\* entry stored by a search of the same shape: such a search is answered by
\* that entry.
C26_SameShapeSameKey ==
  pc \in {"standard", "fixed"} =>
    \A i \in 1..Len(cache) :
      (cache[i].key[1] = "search" /\ ~Expired(cache[i], now))
        => ShapeOfKey(cache[i].key) # ShapeOfRequest

(* ------------------------- the global deadline ------------------------- *)
\* the step in which the timer of the deadline makes search return: search
\* returns although no branch completes in that step
DeadlineStep ==
  /\ pc = "standard"
  /\ pc' = "done"
  /\ repoBranch' = repoBranch
  /\ extBranch' = extBranch

\* C27: when the deadline fires while one branch has completed with a
\* found result and the other is still pending, search returns that found
\* result.
C27_CompletedBranchSurvivesDeadline ==
  [][DeadlineStep =>
       /\ (IsFoundValue(repoBranch) /\ extBranch = Pending)
            => result' = repoBranch.value
       /\ (IsFoundValue(extBranch) /\ repoBranch = Pending)
            => result' = extBranch.value]_vars

\* search returned the external lyric at the deadline, the repository
\* branch being rejected as timed out
C27_Witness ==
  /\ pc = "done"
  /\ elapsed >= TOTAL_TIMEOUT_MS
  /\ settled.repo = Rejected
  /\ IsFoundValue(settled.ext)
  /\ result = settled.ext.value
  /\ result.source = "external"

\* C28: once search has returned, none of its branches takes a further
\* step: no existence check or fetch resolves into a further call, no
\* branch completes, and nothing is written to the cache.
C28_NoActivityAfterReturn ==
  [][(pc = "done" /\ pc' = "done") =>
       /\ cache' = cache
       /\ repoPhase' = repoPhase
       /\ fetches' = fetches
       /\ repoBranch' = repoBranch
       /\ extBranch' = extBranch]_vars

(* ------------------ fetchContent and checkResourceExists --------------- *)
HttpFunctions == {"fetchContent", "checkResourceExists"}

\* HTTP statuses an attempt may receive
HttpStatuses == {200, 404, 500, 503}

\* what an attempt may throw: a network failure, or the abort of its timer
HttpFailures == {"network", "AbortError"}

\* variant of Backoff that waits the same time before every retry
Backoff_Constant(fn, attempt) ==
  IF fn = "fetchContent" THEN 300 ELSE 200

\* delay before the retry that follows the failed attempt
Backoff(fn, attempt) ==
  (IF fn = "fetchContent" THEN 300 ELSE 200) * (attempt + 1)

\* everything but the call
httpFrame ==
  <<repoHas, repoEmpty, extHas, cacheCall, gate, fetcherCall, pool, meta, cache, now, pc, req,
    startedAt, elapsed, result, fromCache, called, faulty,
    repoPhase, repoBranch, toFetch, fetches, firstFound,
    extBranch, fx, settled, foundBy, nSearches, prev>>

\* the call enters requestLimit and starts attempt 0
StartHttp(fn, retries) ==
  /\ http.phase = "idle"
  /\ http' = [phase |-> "request", fn |-> fn, retries |-> retries,
              attempt |-> 0, requests |-> 1, status |-> 0,
              lastError |-> "", waited |-> <<>>]
  /\ UNCHANGED httpFrame

\* the catch block: remember the error, then back off and retry, or leave
\* the loop and return the error
Caught(failure) ==
  IF http.attempt < http.retries
  THEN [http EXCEPT !.phase = "backoff", !.lastError = failure,
                    !.waited = Append(@, Backoff(http.fn, http.attempt))]
  ELSE [phase |-> "returned", fn |-> http.fn, retries |-> http.retries,
        attempt |-> http.attempt, requests |-> http.requests,
        status |-> http.status, lastError |-> failure,
        waited |-> http.waited,
        value |-> IF http.fn = "fetchContent"
                  THEN [error |-> failure]
                  ELSE [exists |-> FALSE, error |-> failure]]

Returned(value) ==
  [phase |-> "returned", fn |-> http.fn, retries |-> http.retries,
   attempt |-> http.attempt, requests |-> http.requests,
   status |-> http.status, lastError |-> http.lastError,
   waited |-> http.waited, value |-> value]

\* the request of the current attempt is answered with an HTTP status
ResponseReceived(status) ==
  /\ http.phase = "request"
  /\ http' = IF http.fn = "checkResourceExists"
             THEN [Returned([exists |-> status = 200, statusCode |-> status])
                     EXCEPT !.status = status]
             ELSE IF status = 200
             THEN [http EXCEPT !.phase = "body", !.status = status]
             ELSE [Returned([statusCode |-> status]) EXCEPT !.status = status]
  /\ UNCHANGED httpFrame

\* the request of the current attempt throws
RequestThrows(failure) ==
  /\ http.phase = "request"
  /\ http' = Caught(failure)
  /\ UNCHANGED httpFrame

\* fetchContent: response.text() of a 200 response resolves
BodyRead ==
  /\ http.phase = "body"
  /\ http' = Returned([content |-> "text", statusCode |-> 200])
  /\ UNCHANGED httpFrame

\* fetchContent: response.text() throws (connection lost, timer aborts)
BodyThrows(failure) ==
  /\ http.phase = "body"
  /\ http' = Caught(failure)
  /\ UNCHANGED httpFrame

\* the backoff timer fires and the next attempt starts
BackoffDone ==
  /\ http.phase = "backoff"
  /\ http' = [http EXCEPT !.phase = "request", !.attempt = @ + 1,
                          !.requests = @ + 1, !.status = 0]
  /\ UNCHANGED httpFrame

HttpStep ==
  \/ \E status \in HttpStatuses : ResponseReceived(status)
  \/ \E failure \in HttpFailures : RequestThrows(failure)
  \/ BodyRead
  \/ \E failure \in HttpFailures : BodyThrows(failure)
  \/ BackoffDone

NextHttp ==
  \/ \E fn \in HttpFunctions, retries \in 0..MaxRetries : StartHttp(fn, retries)
  \/ HttpStep

\* every request and every timer is bounded by a timeout, so a call that
\* can take a step eventually takes one
RetrySpec == InitCache /\ [][NextHttp]_vars /\ WF_vars(HttpStep)

\* what holds of a call whatever made it retry: at most retries + 1
\* requests, the n-th retry after a wait of n times the base delay, and a
\* value once it has returned
RetryDiscipline ==
  http.phase # "idle" =>
    /\ http.requests <= http.retries + 1
    /\ http.requests = http.attempt + 1
    /\ Len(http.waited) = IF http.phase = "backoff" THEN http.requests
                          ELSE http.requests - 1
    /\ \A n \in 1..Len(http.waited) :
         http.waited[n] = n * (IF http.fn = "fetchContent" THEN 300 ELSE 200)
    /\ http.phase = "returned" =>
         \/ http.value \in {[error |-> f] : f \in HttpFailures}
         \/ http.value \in {[exists |-> FALSE, error |-> f] : f \in HttpFailures}
         \/ http.value \in {[statusCode |-> c] : c \in HttpStatuses \ {200}}
         \/ http.value \in {[exists |-> c = 200, statusCode |-> c] : c \in HttpStatuses}
         \/ http.value = [content |-> "text", statusCode |-> 200]

\* C29, as stated: a retry is never started after the attempt has received
\* an HTTP status.
C29_BoundedRetry ==
  /\ RetryDiscipline
  /\ http.phase = "backoff" => http.status = 0

\* C29, amended: a call makes at most retries + 1 requests, waits n times
\* 300 ms (fetchContent) or 200 ms (checkResourceExists) before its n-th
\* retry, retries only after its attempt threw, which in fetchContent
\* includes a failure while the body of a 200 response is read and never
\* follows an attempt that returned its status, and ends by returning a
\* value.
C29_BoundedRetryAfterThrow ==
  /\ [](/\ RetryDiscipline
        /\ http.phase = "backoff" =>
             /\ http.lastError \in HttpFailures
             /\ http.status \in {0, 200}
             /\ http.status = 200 => http.fn = "fetchContent")
  /\ (http.phase # "idle") ~> (http.phase = "returned")

\* fetchContent with two retries failed three times and returned the error
\* after waiting 300 and 600 ms
C29_Witness ==
  /\ http.phase = "returned"
  /\ http.fn = "fetchContent"
  /\ http.retries = 2
  /\ http.requests = 3
  /\ http.waited = <<300, 600>>
  /\ http.value = [error |-> "AbortError"]

(* ------------------------- the concurrency gate ------------------------ *)
gateFrame ==
  <<repoHas, repoEmpty, extHas, cacheCall, http, fetcherCall, pool, meta, cache, now, pc, req,
    startedAt, elapsed, result, fromCache, called, faulty,
    repoPhase, repoBranch, toFetch, fetches, firstFound,
    extBranch, fx, settled, foundBy, nSearches, prev>>

Outstanding == gate.active + gate.queued + gate.direct

\* a search calls checkResourceExists (or fetchContent): requestLimit runs
\* the call when a permit is free and queues it otherwise
CallThroughLimit ==
  /\ Outstanding < MaxOutstanding
  /\ gate' = IF gate.active < MAX_CONCURRENT_REQUESTS
             THEN [gate EXCEPT !.active = @ + 1]
             ELSE [gate EXCEPT !.queued = @ + 1]
  /\ UNCHANGED gateFrame

\* a call that holds a permit returns; its permit passes to the next queued
\* call, if there is one
LimitedCallReturns ==
  /\ gate.active > 0
  /\ gate' = IF gate.queued > 0
             THEN [gate EXCEPT !.queued = @ - 1]
             ELSE [gate EXCEPT !.active = @ - 1]
  /\ UNCHANGED gateFrame

\* a search calls RepositoryFetcher.fetch or ExternalApiFetcher.fetch, which
\* call fetch(url) themselves
CallFetcher ==
  /\ Outstanding < MaxOutstanding
  /\ gate' = [gate EXCEPT !.direct = @ + 1]
  /\ UNCHANGED gateFrame

FetcherReturns ==
  /\ gate.direct > 0
  /\ gate' = [gate EXCEPT !.direct = @ - 1]
  /\ UNCHANGED gateFrame

NextGate ==
  \/ CallThroughLimit
  \/ LimitedCallReturns
  \/ CallFetcher
  \/ FetcherReturns

GateSpec == InitCache /\ [][NextGate]_vars

\* the calls that go through requestLimit stay within the permits
GatedWithinPermits ==
  /\ gate.active <= MAX_CONCURRENT_REQUESTS
  /\ gate.queued > 0 => gate.active = MAX_CONCURRENT_REQUESTS

\* C30: the network calls in flight, existence checks and fetches of both
\* sources together, never number more than MAX_CONCURRENT_REQUESTS.
C30_InFlightBounded ==
  gate.active + gate.direct <= MAX_CONCURRENT_REQUESTS

(* ------------------------- the fetchers alone -------------------------- *)
\* payloads of the external API: the fields that carry a lyric with a
\* timestamped line; any other field is absent, empty or plain text
Payloads == SUBSET {"yrc", "lrc", "tlyric", "romalrc"}

FormatHints == {"", "yrc", "lrc"}

\* statuses of a response of the external API (0: fetch threw)
ExternalStatuses == {0, 200, 404, 500}

\* statuses of a response of the repository (0: fetch threw)
RepositoryStatuses == {0, 200, 204, 403, 404, 500, 503}

RepositoryBodies == {<<>>, <<"stamped">>, ReadFailure}

fetcherFrame ==
  <<repoHas, repoEmpty, extHas, cacheCall, http, gate, pool, meta, cache,
    now, pc, req, startedAt, elapsed, result, fromCache, called, faulty,
    repoPhase, repoBranch, toFetch, fetches, firstFound,
    extBranch, fx, settled, foundBy, nSearches, prev>>

CallExternalFetcher(payload, specificFormat, response) ==
  /\ fetcherCall' = [fetcher |-> "external", payload |-> payload,
                     specificFormat |-> specificFormat, response |-> response,
                     returned |-> ExternalApiFetcher_fetch(payload,
                                              specificFormat, response)]
  /\ UNCHANGED fetcherFrame

CallRepositoryFetcher(format, response, body) ==
  /\ fetcherCall' = [fetcher |-> "repository", format |-> format,
                     response |-> response, body |-> body,
                     returned |-> RepositoryFetcher_fetch(format, response, body)]
  /\ UNCHANGED fetcherFrame

NextFetcher ==
  \/ \E payload \in Payloads, specificFormat \in FormatHints,
        response \in ExternalStatuses :
       CallExternalFetcher(payload, specificFormat, response)
  \/ \E format \in {ALLOWED_FORMATS[i] : i \in 1..Len(ALLOWED_FORMATS)},
        response \in RepositoryStatuses, body \in RepositoryBodies :
       CallRepositoryFetcher(format, response, body)

FetcherSpec == InitCache /\ [][NextFetcher]_vars

\* C31: on an answered request ExternalApiFetcher.fetch never returns an
\* error for what the payload lacks; without a hint it returns yrc when yrc
\* is usable, else lrc when lrc is usable, else notfound; with a hint it
\* returns the hinted format when that is usable and notfound otherwise;
\* translation and romaji are present exactly when their fields are usable.
C31_ExternalFormatPreference ==
  (fetcherCall.fetcher = "external" /\ fetcherCall.response = 200) =>
    LET payload == fetcherCall.payload
        hint == fetcherCall.specificFormat
        returned == fetcherCall.returned
        expected == IF hint # "" THEN (IF hint \in payload THEN hint ELSE "")
                    ELSE IF "yrc" \in payload THEN "yrc"
                    ELSE IF "lrc" \in payload THEN "lrc"
                    ELSE ""
    IN /\ returned.status \in {"found", "notfound"}
       /\ returned.status = "found" <=> expected # ""
       /\ returned.status = "found" =>
            /\ returned.format = expected
            /\ returned.content # <<>>
            /\ returned.translation # <<>> <=> "tlyric" \in payload
            /\ returned.romaji # <<>> <=> "romalrc" \in payload

\* a call hinted lrc on a payload whose only usable lyric is yrc returned
\* notfound
C31_Witness ==
  /\ fetcherCall.fetcher = "external"
  /\ fetcherCall.response = 200
  /\ fetcherCall.specificFormat = "lrc"
  /\ fetcherCall.payload = {"yrc", "tlyric"}
  /\ fetcherCall.returned.status = "notfound"

\* C32: RepositoryFetcher.fetch returns found for a 2xx response whose body
\* could be read, notfound exactly for 404, an error with the upstream
\* status for every other status, and an error without a status when the
\* request threw or the body could not be read.
C32_RepositoryOutcome ==
  fetcherCall.fetcher = "repository" =>
    LET response == fetcherCall.response
        returned == fetcherCall.returned
        ok == response >= 200 /\ response <= 299
    IN /\ returned.status \in {"found", "notfound", "error"}
       /\ returned.format = fetcherCall.format
       /\ returned.status = "found" <=> (ok /\ fetcherCall.body # ReadFailure)
       /\ returned.status = "found" => returned.content = fetcherCall.body
       /\ returned.status = "notfound" <=> response = 404
       /\ returned.status = "error" =>
            returned.statusCode
              = IF response = 0 \/ ok THEN 0 ELSE response

\* a 204 response whose body was read was returned as found
C32_Witness ==
  /\ fetcherCall.fetcher = "repository"
  /\ fetcherCall.response = 204
  /\ fetcherCall.returned.status = "found"

(* --------------------------- bounded cache ----------------------------- *)
\* C33: the cache never holds more than maxSize entries, and never two
\* entries under one key, whatever sequence of set, get, invalidate, cleanup
\* and clear is applied, setting a present key included.
C33_SizeWithinMaxSize ==
  /\ Len(cache) <= MaxSize
  /\ Cardinality({cache[i].key : i \in 1..Len(cache)}) = Len(cache)

\* a full cache was set on its oldest key: that entry was evicted and stored
\* again, and the cache is full
C33_Witness ==
  /\ cacheCall.op = "set"
  /\ cacheCall.evicted = cacheCall.key
  /\ Len(cache) = MaxSize

(* ------------------------ the key as a string -------------------------- *)
\* strings as sequences of pieces, ":" being a piece of its own, so that
\* template-string concatenation is concatenation of sequences
KeyIds == {<<"a">>, <<"a", ":", "b">>}

\* fixedVersion and fallback as the caller passes them; <<>> is an absent
\* or empty option
KeyFixedVersions == {<<>>, <<"b", ":", "none">>}

KeyFallbacks == {<<>>, <<"none">>}

toLowerCase(s) == [i \in 1..Len(s) |-> ToLowerCase(s[i])]

\* search: cacheKey, the template string
\* `search:${id}:${fixedVersionQuery || 'none'}:${fallbackQuery || 'none'}`
cacheKeyString(id, fixedVersionQuery, fallbackQuery) ==
  <<"search", ":">> \o id \o <<":">>
    \o (IF fixedVersionQuery = <<>> THEN <<"none">> ELSE fixedVersionQuery)
    \o <<":">>
    \o (IF fallbackQuery = <<>> THEN <<"none">> ELSE fallbackQuery)

\* the shape of a request: its id, its fixed format and its fallback string
RequestShape(id, fixedVersion, fallbackQuery) ==
  [id |-> id, fixed |-> toLowerCase(fixedVersion), fallback |-> fallbackQuery]

\* search, its first lines: the lookup of the top-level entry
SearchReadsCache(id, fixedVersion, fallbackQuery) ==
  LET cacheKey == cacheKeyString(id, toLowerCase(fixedVersion), fallbackQuery)
  IN /\ cache' = CacheAfterGet(cache, cacheKey, now)
     /\ cacheCall' = [op |-> "get", key |-> cacheKey,
                      request |-> RequestShape(id, fixedVersion, fallbackQuery),
                      value |-> CacheGetValue(cache, cacheKey, now)]
     /\ UNCHANGED <<now, searchVars>>

\* search, a found result stored under the top-level key; storedFor records
\* the request that stored it
SearchStoresResult(id, fixedVersion, fallbackQuery) ==
  LET cacheKey == cacheKeyString(id, toLowerCase(fixedVersion), fallbackQuery)
      res == [found |-> TRUE, id |-> id,
              storedFor |-> RequestShape(id, fixedVersion, fallbackQuery)]
  IN /\ cache' = CacheSet(cache, cacheKey, res, now)
     /\ cacheCall' = [op |-> "set", key |-> cacheKey,
                      request |-> RequestShape(id, fixedVersion, fallbackQuery),
                      value |-> res]
     /\ UNCHANGED <<now, searchVars>>

NextKeys ==
  \/ \E id \in KeyIds, fixedVersion \in KeyFixedVersions,
        fallbackQuery \in KeyFallbacks :
       SearchReadsCache(id, fixedVersion, fallbackQuery)
  \/ \E id \in KeyIds, fixedVersion \in KeyFixedVersions,
        fallbackQuery \in KeyFallbacks :
       SearchStoresResult(id, fixedVersion, fallbackQuery)
  \/ ClockTick

KeySpec == InitCache /\ [][NextKeys]_vars

\* C34: the top-level key is injective on request shapes: an entry that a
\* search reads under its key was stored by a search of the same id, fixed
\* format and fallback string.
C34_KeyInjective ==
  (cacheCall.op = "get" /\ cacheCall.value # NoValue) =>
    /\ cacheCall.value.id = cacheCall.request.id
    /\ cacheCall.value.storedFor = cacheCall.request

(* ----------------------------- WorkerPool ------------------------------ *)
\* tasks submitted to the pool
MaxTasks == 3

\* MAX_WORKERS, between 2 and 4 with the number of cores
MAX_WORKERS == 2

WorkerIds == 1..(2 * MaxTasks + 1)

poolFrame ==
  <<repoHas, repoEmpty, extHas, cacheCall, http, gate, fetcherCall, meta,
    cache, now, pc, req, startedAt, elapsed, result, fromCache, called,
    faulty, repoPhase, repoBranch, toFetch, fetches, firstFound,
    extBranch, fx, settled, foundBy, nSearches, prev>>

\* WorkerPool.createWorker
createWorker(p) ==
  [p EXCEPT !.workers = Append(@, p.nextWorker), !.nextWorker = @ + 1]

\* variant of getAvailableWorker that creates a worker whenever all are busy
getAvailableWorker_NoLimit(p) ==
  IF \E i \in 1..Len(p.workers) : p.workers[i] \notin p.busyWorkers
  THEN p.workers[CHOOSE i \in 1..Len(p.workers) :
                   /\ p.workers[i] \notin p.busyWorkers
                   /\ \A j \in 1..(i - 1) : p.workers[j] \in p.busyWorkers]
  ELSE p.nextWorker

\* WorkerPool.getAvailableWorker: the first worker that is not busy, else
\* the worker createWorker is about to create, else 0 for null
getAvailableWorker(p) ==
  IF \E i \in 1..Len(p.workers) : p.workers[i] \notin p.busyWorkers
  THEN p.workers[CHOOSE i \in 1..Len(p.workers) :
                   /\ p.workers[i] \notin p.busyWorkers
                   /\ \A j \in 1..(i - 1) : p.workers[j] \in p.busyWorkers]
  ELSE IF Len(p.workers) < MAX_WORKERS THEN p.nextWorker
  ELSE 0

\* variant of processQueue that leaves the idle timer of the worker running
processQueue_KeepTimer(p) ==
  LET worker == getAvailableWorker(p)
      p1 == IF worker = p.nextWorker THEN createWorker(p) ELSE p
  IN IF p.taskQueue = <<>> \/ worker = 0 THEN p
     ELSE [p1 EXCEPT !.taskQueue = Tail(@),
                     !.busyWorkers = @ \cup {worker},
                     !.listening = @ \cup {[worker |-> worker,
                                            task |-> Head(p.taskQueue)]},
                     !.dispatched = Append(@, Head(p.taskQueue))]

\* WorkerPool.processQueue
processQueue(p) ==
  LET worker == getAvailableWorker(p)
      p1 == IF worker = p.nextWorker THEN createWorker(p) ELSE p
  IN IF p.taskQueue = <<>> \/ worker = 0 THEN p
     ELSE [p1 EXCEPT !.taskQueue = Tail(@),
                     !.busyWorkers = @ \cup {worker},
                     !.idleTimers = @ \ {worker},
                     !.listening = @ \cup {[worker |-> worker,
                                            task |-> Head(p.taskQueue)]},
                     !.dispatched = Append(@, Head(p.taskQueue))]

\* WorkerPool.terminateWorker; a terminated worker emits neither message
\* nor error
terminateWorker(p, worker) ==
  IF \E i \in 1..Len(p.workers) : p.workers[i] = worker
  THEN [p EXCEPT !.idleTimers = @ \ {worker},
                 !.terminated = @ \cup {worker},
                 !.workers = SelectSeq(@, LAMBDA w : w # worker),
                 !.busyWorkers = @ \ {worker}]
  ELSE p

Event(p, kind, worker) ==
  [kind |-> kind, worker |-> worker, wasBusy |-> worker \in p.busyWorkers]

\* const workerPool = new WorkerPool(MAX_WORKERS)
NewWorkerPool ==
  /\ ~pool.created
  /\ pool' = [NoPool EXCEPT !.created = TRUE]
  /\ UNCHANGED poolFrame

\* WorkerPool.runTask
runTask ==
  /\ pool.created
  /\ pool.submitted < MaxTasks
  /\ LET task == pool.submitted + 1
         p1 == [pool EXCEPT !.submitted = task,
                            !.taskQueue = Append(@, task),
                            !.event = Event(pool, "runTask", 0)]
     IN pool' = processQueue(p1)
  /\ UNCHANGED poolFrame

\* the workers whose message and error listeners are registered and that
\* still run
Answering(p) == {l \in p.listening : l.worker \notin p.terminated}

\* processQueue: messageHandler
messageHandler(l) ==
  /\ l \in Answering(pool)
  /\ LET p1 == [pool EXCEPT !.listening = @ \ {l},
                            !.busyWorkers = @ \ {l.worker},
                            !.idleTimers = @ \cup {l.worker},
                            !.event = Event(pool, "message", l.worker)]
         p2 == processQueue(p1)
     IN pool' = [p2 EXCEPT !.resolved = @ \cup {l.task}]
  /\ UNCHANGED poolFrame

\* processQueue: errorHandler
errorHandler(l) ==
  /\ l \in Answering(pool)
  /\ LET p1 == [pool EXCEPT !.listening = @ \ {l},
                            !.busyWorkers = @ \ {l.worker},
                            !.event = Event(pool, "error", l.worker)]
         p2 == processQueue(createWorker(terminateWorker(p1, l.worker)))
     IN pool' = [p2 EXCEPT !.rejected = @ \cup {l.task}]
  /\ UNCHANGED poolFrame

\* the callback of the idle timer set by messageHandler
IdleTimeout(worker) ==
  /\ worker \in pool.idleTimers
  /\ pool' = terminateWorker([pool EXCEPT !.event = Event(pool, "idle", worker)],
                             worker)
  /\ UNCHANGED poolFrame

\* WorkerPool.shutdown
shutdown ==
  /\ pool.created
  /\ pool' = [pool EXCEPT
                !.idleTimers = {},
                !.terminated = @ \cup {pool.workers[i] : i \in 1..Len(pool.workers)},
                !.workers = <<>>,
                !.busyWorkers = {},
                !.event = Event(pool, "shutdown", 0)]
  /\ UNCHANGED poolFrame

NextPool ==
  \/ NewWorkerPool
  \/ runTask
  \/ \E l \in pool.listening : messageHandler(l)
  \/ \E l \in pool.listening : errorHandler(l)
  \/ \E worker \in pool.idleTimers : IdleTimeout(worker)
  \/ shutdown

\* a worker that runs a task answers it with a message or an error, and a
\* timer that is set fires
WorkerAnswers(worker) ==
  \E l \in pool.listening :
    l.worker = worker /\ (messageHandler(l) \/ errorHandler(l))

PoolSpec ==
  /\ InitCache
  /\ [][NextPool]_vars
  /\ \A worker \in WorkerIds : WF_vars(WorkerAnswers(worker))
  /\ \A worker \in WorkerIds : WF_vars(IdleTimeout(worker))

Settled(p) == p.resolved \cup p.rejected

\* C35: every promise returned by runTask is eventually resolved or
\* rejected, whatever the interleaving of submissions, worker messages,
\* worker errors, idle timeouts and shutdown.
C35_EveryTaskSettles ==
  \A task \in 1..MaxTasks :
    (pool.submitted >= task) ~> (task \in Settled(pool))

\* the worker threads that were created and not terminated
LiveWorkers(p) == (1..(p.nextWorker - 1)) \ p.terminated

\* C36: the pool never holds more than maxWorkers workers, and no more than
\* maxWorkers worker threads are alive.
C36_WorkersWithinMax ==
  /\ Len(pool.workers) <= MAX_WORKERS
  /\ Cardinality(LiveWorkers(pool)) <= MAX_WORKERS

\* a worker failed while the pool was full: it was terminated and replaced,
\* and the pool is full again
C36_Witness ==
  /\ pool.event.kind = "error"
  /\ pool.event.worker \in pool.terminated
  /\ Len(pool.workers) = MAX_WORKERS

\* C37: a worker has at most one task outstanding and is busy while it has
\* one, the tasks are dispatched in the order of their submission, no busy
\* worker has an idle timer running, and the idle timer never terminates a
\* worker that is busy.
C37_OneTaskPerWorkerInOrder ==
  /\ \A l1, l2 \in Answering(pool) : l1.worker = l2.worker => l1 = l2
  /\ \A l \in Answering(pool) : l.worker \in pool.busyWorkers
  /\ \A i \in 1..Len(pool.dispatched) : pool.dispatched[i] = i
  /\ pool.idleTimers \cap pool.busyWorkers = {}
  /\ pool.event.kind = "idle" => ~pool.event.wasBusy

\* a worker answered while a task was queued: its idle timer was set and
\* cancelled again as the third task was handed to it
C37_Witness ==
  /\ pool.event.kind = "message"
  /\ pool.event.worker \in pool.busyWorkers
  /\ pool.event.worker \notin pool.idleTimers
  /\ Len(pool.dispatched) = MaxTasks

(* --------------------------- getLyricMetadata -------------------------- *)
EARLY_RETURN_TIMEOUT_MS == 4000

MIN_FORMATS_FOR_INSTANT_RETURN == 3

\* getLyricMetadata: uniqueRepoFormats
uniqueRepoFormats ==
  Dedup(<<"ttml">> \o SelectSeq(DEFAULT_FALLBACK_ORDER, LAMBDA f : f # "ttml"))

priorityFormats == {"ttml", "yrc", "lrc"}

metaFrame ==
  <<repoHas, repoEmpty, extHas, cacheCall, http, gate, fetcherCall, pool,
    cache, now, pc, req, startedAt, elapsed, result, fromCache, called,
    faulty, repoPhase, repoBranch, toFetch, fetches, firstFound,
    extBranch, fx, settled, foundBy, nSearches, prev>>

\* what checkExternalFormatsAvailability returns: the formats of the payload
\* with a lyric, or no format and an error with its status
ExternalAvailabilities ==
  {[formats |-> fs, hasTranslation |-> t, hasRomaji |-> t, statusCode |-> 0] :
     fs \in {<<>>, <<"lrc">>, <<"yrc">>, <<"lrc", "yrc">>}, t \in BOOLEAN}
  \cup {[formats |-> <<>>, hasTranslation |-> FALSE, hasRomaji |-> FALSE,
         statusCode |-> code] : code \in {408, 502}}

\* getLyricMetadata up to the await of the race: state, the two timers and
\* the checks started; checks is the log of the checks that completed
\* and timerAt the last timer that fired
StartedMetadata ==
  [phase |-> "waiting",
   foundFormats |-> {}, hasTranslation |-> FALSE, hasRomaji |-> FALSE,
   error |-> "", statusCode |-> 0,
   shouldReturnEarly |-> FALSE, earlyReturnTriggered |-> FALSE,
   completedChecks |-> 0, totalChecks |-> Len(uniqueRepoFormats) + 1,
   priorityFormatsFound |-> 0,
   pendingRepo |-> {uniqueRepoFormats[i] : i \in 1..Len(uniqueRepoFormats)},
   pendingExternal |-> TRUE,
   timerAt |-> 0, checks |-> {}, checksAtEnd |-> {}, ended |-> "none",
   returned |-> [found |-> FALSE]]

\* the result built after the race resolved
ResolvedResult(m) ==
  IF m.foundFormats # {}
  THEN [found |-> TRUE, id |-> ID, availableFormats |-> m.foundFormats,
        hasTranslation |-> m.hasTranslation, hasRomaji |-> m.hasRomaji]
  ELSE [found |-> FALSE, id |-> ID,
        error |-> IF m.error # "" THEN m.error ELSE "No lyric formats found",
        statusCode |-> IF m.statusCode # 0 THEN m.statusCode ELSE 404]

\* variant of TimedOutResult that reports the timeout whatever was recorded
TimedOutResult_Always408(m) ==
  [found |-> FALSE, id |-> ID, error |-> "Metadata check timed out",
   statusCode |-> 408]

\* the result built in the catch block after the race rejected
TimedOutResult(m) ==
  IF m.foundFormats # {}
  THEN [found |-> TRUE, id |-> ID, availableFormats |-> m.foundFormats,
        hasTranslation |-> m.hasTranslation, hasRomaji |-> m.hasRomaji]
  ELSE [found |-> FALSE, id |-> ID, error |-> "Metadata check timed out",
        statusCode |-> 408]

\* the race of getLyricMetadata ends and the function returns
Return(m, arm) ==
  [m EXCEPT !.phase = "returned", !.ended = arm, !.checksAtEnd = m.checks,
            !.returned = IF arm = "timeout" THEN TimedOutResult(m)
                         ELSE ResolvedResult(m)]

\* Promise.all(allTasks) resolves with the last check and wins the race
AfterCheck(m) ==
  IF m.phase = "waiting" /\ m.pendingRepo = {} /\ ~m.pendingExternal
  THEN Return(m, "all")
  ELSE m

StartMetadata ==
  /\ meta.phase = "idle"
  /\ meta' = StartedMetadata
  /\ UNCHANGED metaFrame

\* handleRepoFormatCheck after its await
RepoChecked(m, format, exists) ==
  [m EXCEPT !.completedChecks = @ + 1,
            !.pendingRepo = @ \ {format},
            !.checks = @ \cup {[source |-> "repository", format |-> format,
                                exists |-> exists]},
            !.foundFormats = IF exists THEN @ \cup {format} ELSE @,
            !.priorityFormatsFound =
               IF exists /\ format \in priorityFormats THEN @ + 1 ELSE @]

handleRepoFormatCheck(format, exists) ==
  /\ meta.phase # "idle"
  /\ format \in meta.pendingRepo
  /\ meta' = AfterCheck(RepoChecked(meta, format, exists))
  /\ UNCHANGED metaFrame

\* handleExternalCheck after its await
ExternalChecked(m, res) ==
  LET formats == {res.formats[i] : i \in 1..Len(res.formats)}
  IN [m EXCEPT !.completedChecks = @ + 1,
               !.pendingExternal = FALSE,
               !.checks = @ \cup {[source |-> "external", format |-> f,
                                   exists |-> TRUE] : f \in formats},
               !.foundFormats = @ \cup formats,
               !.priorityFormatsFound =
                  @ + Cardinality(formats \cap priorityFormats),
               !.hasTranslation = @ \/ res.hasTranslation,
               !.hasRomaji = @ \/ res.hasRomaji,
               !.error = IF res.statusCode # 0 THEN "External API error" ELSE @,
               !.statusCode = IF res.statusCode # 0 THEN res.statusCode ELSE @]

handleExternalCheck(res) ==
  /\ meta.phase # "idle"
  /\ meta.pendingExternal
  /\ meta' = AfterCheck(ExternalChecked(meta, res))
  /\ UNCHANGED metaFrame

\* the callback of the early-return timer
EarlyReturnTimer ==
  /\ meta.phase = "waiting"
  /\ meta.timerAt = 0
  /\ meta' = [meta EXCEPT
                !.timerAt = EARLY_RETURN_TIMEOUT_MS,
                !.shouldReturnEarly =
                   IF meta.foundFormats # {} /\ ~meta.earlyReturnTriggered
                   THEN TRUE ELSE @]
  /\ UNCHANGED metaFrame

\* monitorEarlyReturn: the condition of one round of its loop
CanReturnEarly(m) ==
  LET hasHighCompletion ==
        4 * m.completedChecks >= 3 * m.totalChecks /\ m.foundFormats # {}
      hasMultipleFormats ==
        Cardinality(m.foundFormats) >= MIN_FORMATS_FOR_INSTANT_RETURN
      hasPriorityFormats == m.priorityFormatsFound >= 2
      timerTriggeredReturn == m.shouldReturnEarly /\ m.foundFormats # {}
  IN hasHighCompletion \/ hasMultipleFormats \/ hasPriorityFormats
       \/ timerTriggeredReturn

\* monitorEarlyReturn: a round of the loop that returns and wins the race
monitorEarlyReturn ==
  /\ meta.phase = "waiting"
  /\ CanReturnEarly(meta)
  /\ meta' = Return([meta EXCEPT !.earlyReturnTriggered = TRUE], "early")
  /\ UNCHANGED metaFrame

\* the callback of the overall timer: abort, the race rejects
OverallTimeout ==
  /\ meta.phase = "waiting"
  /\ meta.timerAt = EARLY_RETURN_TIMEOUT_MS
  /\ meta' = Return([meta EXCEPT !.timerAt = TOTAL_TIMEOUT_MS], "timeout")
  /\ UNCHANGED metaFrame

NextMetadata ==
  \/ StartMetadata
  \/ \E format \in {uniqueRepoFormats[i] : i \in 1..Len(uniqueRepoFormats)},
        exists \in BOOLEAN :
       handleRepoFormatCheck(format, exists)
  \/ \E res \in ExternalAvailabilities : handleExternalCheck(res)
  \/ EarlyReturnTimer
  \/ monitorEarlyReturn
  \/ OverallTimeout

MetadataSpec == InitCache /\ [][NextMetadata]_vars

\* the formats that the checks completed before the return reported
ConfirmedAtEnd(m) == {c.format : c \in {d \in m.checksAtEnd : d.exists}}

\* C38: getLyricMetadata returns found exactly when a check that completed
\* before the wait ended reported a format, whichever arm ended the wait;
\* ended by the overall timeout with no format it returns 408; and the
\* formats it returns are those the completed checks reported.
C38_FoundIffFormatRecorded ==
  meta.phase = "returned" =>
    /\ meta.returned.found <=> ConfirmedAtEnd(meta) # {}
    /\ meta.returned.found =>
         meta.returned.availableFormats = ConfirmedAtEnd(meta)
    /\ (meta.ended = "timeout" /\ ConfirmedAtEnd(meta) = {}) =>
         meta.returned.statusCode = 408

\* the overall timeout ended the wait after one check had found a format
\* and while another was pending: found is returned
C38_Witness ==
  /\ meta.phase = "returned"
  /\ meta.ended = "timeout"
  /\ meta.returned.found
  /\ meta.pendingRepo # {}

\* C39: priorityFormatsFound equals the number of distinct priority formats
\* in foundFormats, and completedChecks never exceeds totalChecks.
C39_PriorityCountDistinct ==
  meta.phase # "idle" =>
    /\ meta.priorityFormatsFound
         = Cardinality(meta.foundFormats \cap priorityFormats)
    /\ meta.completedChecks <= meta.totalChecks

====
